---- MODULE Spec2Model ----
(***************************************************************************)
(* PlayMeow: the cat-and-laser simulation environment                      *)
(* (playmeow/simulation.py), the replay/target-network agent               *)
(* (playmeow/reinforcement.py) and the episode driver                      *)
(* (playmeow/trainer.py).                                                  *)
(*                                                                         *)
(* Number representation                                                   *)
(*   positions, velocities : integer hundredths (0.01 play-area units)     *)
(*   unit directions       : integer hundredths (<<100, 0>> is +x)         *)
(*   actions               : integer tenths (action * 0.1 is then the      *)
(*                           displacement in hundredths)                   *)
(*   reward                : integer ten-thousandths                       *)
(*   cat_interest_level    : an IEEE-754 double, kept exactly (see Dbl)    *)
(***************************************************************************)
EXTENDS Integers, Sequences, FiniteSets, TLC

(***************************************************************************)
(* IEEE-754 binary64 arithmetic.  The doubles the code computes with here  *)
(* (the interest level, epsilon) are multiples of 2^-59 of magnitude below *)
(* 16, so a value is held exactly as three limbs <<a, b, c>> meaning       *)
(* (a * 2^40 + b * 2^20 + c) * 2^-59 with 0 <= b, c < 2^20 (a < 0 for a    *)
(* negative value); every intermediate stays below 2^31.  Each operation   *)
(* is the exact result rounded to 53 significant bits, nearest, ties to    *)
(* even.                                                                   *)
(***************************************************************************)
Limb == 1024 * 1024

\* the doubles nearest to the decimal literals of the code
Dbl_0_0  == <<0, 0, 0>>
Dbl_0_01 == <<5242, 922746, 922747>>      \* 0x1.47ae147ae147bp-7
Dbl_0_05 == <<26214, 419430, 419432>>     \* 0x1.999999999999ap-5
Dbl_0_1  == <<52428, 838860, 838864>>     \* 0x1.999999999999ap-4
Dbl_0_2  == <<104857, 629145, 629152>>    \* 0x1.999999999999ap-3
Dbl_0_3  == <<157286, 419430, 419424>>    \* 0x1.3333333333333p-2
Dbl_0_5  == <<262144, 0, 0>>              \* 0x1p-1
Dbl_0_6  == <<314572, 838860, 838848>>    \* 0x1.3333333333333p-1
Dbl_0_7  == <<367001, 629145, 629120>>    \* 0x1.6666666666666p-1
Dbl_0_9  == <<471859, 209715, 209728>>    \* 0x1.ccccccccccccdp-1
Dbl_1_0  == <<524288, 0, 0>>              \* 0x1p+0

DblLess(x, y) ==
    \/ x[1] < y[1]
    \/ x[1] = y[1] /\ x[2] < y[2]
    \/ x[1] = y[1] /\ x[2] = y[2] /\ x[3] < y[3]

\* Python's min(x, y) and max(x, y) on floats
DblMin(x, y) == IF DblLess(y, x) THEN y ELSE x

DblMax(x, y) == IF DblLess(x, y) THEN y ELSE x

\* carries (borrows) propagated so that 0 <= b, c < 2^20
DblCarry(a, b, c) ==
    LET b2 == b + (c \div Limb)
    IN  <<a + (b2 \div Limb), b2 % Limb, c % Limb>>

\* The spacing of doubles, in units of 2^-59, in the binade of a value with
\* top limb a: 53 significant bits.  Below 2^-6 every multiple of 2^-59 is a
\* double.
DblUlp(a) ==
    IF a >= 4194304 THEN 1024
    ELSE IF a >= 2097152 THEN 512
    ELSE IF a >= 1048576 THEN 256
    ELSE IF a >= 524288 THEN 128
    ELSE IF a >= 262144 THEN 64
    ELSE IF a >= 131072 THEN 32
    ELSE IF a >= 65536 THEN 16
    ELSE IF a >= 32768 THEN 8
    ELSE IF a >= 16384 THEN 4
    ELSE IF a >= 8192 THEN 2
    ELSE 1

\* the exact value v + rem / den (0 <= rem < den) rounded to a double
DblRoundFrac(v, rem, den) ==
    LET u == DblUlp(v[1])
        q == v[3] \div u
        low == (v[3] % u) * den + rem
        up == (2 * low > u * den) \/ (2 * low = u * den /\ q % 2 = 1)
    IN  DblCarry(v[1], v[2], (IF up THEN q + 1 ELSE q) * u)

DblRound(v) == DblRoundFrac(v, 0, 1)

\* x + y, x - y, x * k and x / n for doubles x, y and small naturals k, n
DblAdd(x, y) == DblRound(DblCarry(x[1] + y[1], x[2] + y[2], x[3] + y[3]))

DblSub(x, y) == DblRound(DblCarry(x[1] - y[1], x[2] - y[2], x[3] - y[3]))

DblMulInt(x, k) == DblRound(DblCarry(x[1] * k, x[2] * k, x[3] * k))

DblDivInt(x, n) ==
    LET b == (x[1] % n) * Limb + x[2]
        c == (b % n) * Limb + x[3]
    IN  DblRoundFrac(<<x[1] \div n, b \div n, c \div n>>, c % n, n)

\* a double in thousandths (rounded down), for use on the position grid
DblMilli(x) == (x[1] * 1000) \div 524288

(***************************************************************************)
(* Integer helpers for the position grid                                   *)
(***************************************************************************)
Abs(x) == IF x < 0 THEN -x ELSE x

Min2(a, b) == IF a < b THEN a ELSE b

Max2(a, b) == IF a < b THEN b ELSE a

\* division rounding toward zero
TruncDiv(a, b) == IF a >= 0 THEN a \div b ELSE -((-a) \div b)

RECURSIVE ISqrtIter(_, _, _)
ISqrtIter(n, lo, hi) ==
    IF lo >= hi THEN lo
    ELSE LET mid == (lo + hi + 1) \div 2
         IN  IF mid * mid <= n THEN ISqrtIter(n, mid, hi)
                               ELSE ISqrtIter(n, lo, mid - 1)

\* floor of the square root
ISqrt(n) == ISqrtIter(n, 0, Min2(n, 46340))

\* squared length of a 2-vector; np.linalg.norm comparisons are made on
\* squares, which is exact on the grid
Norm2(v) == v[1] * v[1] + v[2] * v[2]

VAdd(a, b) == <<a[1] + b[1], a[2] + b[2]>>

VSub(a, b) == <<a[1] - b[1], a[2] - b[2]>>

\* v / |v| in hundredths; the zero vector is left alone, as each call site
\* guards the division by "norm > 0"
Normalize(v) ==
    LET n == ISqrt(Norm2(v))
    IN  IF n > 0 THEN <<TruncDiv(v[1] * 100, n), TruncDiv(v[2] * 100, n)>>
                 ELSE <<0, 0>>

\* np.clip(x, lo, hi)
Clip(x, lo, hi) == IF x < lo THEN lo ELSE IF x > hi THEN hi ELSE x

\* A coordinate that is not a number (the float nan) is held as this value,
\* far off the position grid.  Arithmetic with it yields it again, and every
\* comparison with it is false, as in IEEE-754.
NaN == -1073741824

IsNaN(x) == x = NaN

HasNaN(v) == IsNaN(v[1]) \/ IsNaN(v[2])

\* a - b on coordinates
NSub(a, b) == IF IsNaN(a) \/ IsNaN(b) THEN NaN ELSE a - b

\* the squared np.linalg.norm(a - b)
Distance2(a, b) == IF HasNaN(a) \/ HasNaN(b) THEN NaN ELSE Norm2(VSub(a, b))

(***************************************************************************)
(* State                                                                   *)
(***************************************************************************)
VARIABLES
    \* PlayMeowSimulation fields
    bounds,                 \* <<min_x, max_x, min_z, max_z>>
    cat_speed_range,        \* <<min_speed, max_speed>>
    engagement_threshold,
    max_episode_steps,
    cat_pos,
    laser_pos,
    cat_velocity,
    engagement,
    time_since_engagement,
    play_duration,
    cat_interest_level,
    episode_steps,
    \* what the last reset()/step() call returned besides the observation
    \* (see Observation), with the action it was given and the velocity it
    \* moved the cat by, and the external state
    \* of the environment: "Idle" before the first reset, "Active" after a
    \* reset, "Done" once a step of the episode has returned done = True
    sim_ret,
    phase

simVars == <<bounds, cat_speed_range, engagement_threshold, max_episode_steps,
             cat_pos, laser_pos, cat_velocity, engagement,
             time_since_engagement, play_duration, cat_interest_level,
             episode_steps, sim_ret, phase>>

(***************************************************************************)
(* Bounds of the model and the sets the random draws are taken from        *)
(***************************************************************************)
\* steps explored per episode where the cat moves / where it stands still
ShortHorizon == 2
LongHorizon == 102

\* rows of the observation window, np.tile(features, (10, 1))
WindowRows == 10

\* np.random.uniform(lo, hi): a value of [lo, hi), lo when the range is empty
UniformDraws(lo, hi) == {lo, (lo + hi) \div 2, Max2(lo, hi - 1)}

\* np.random.uniform(lo, hi) for a speed
SpeedDraws(lo, hi) == {lo, (lo + hi) \div 2}

\* unit vectors (cos(angle), sin(angle)) for a random angle
UnitDirs == {<<100, 0>>, <<0, 100>>, <<-60, -80>>}

\* reset(): distance * (cos(angle), sin(angle)), distance in [0.5, 1.0)
ResetOffsets == {<<50, 0>>, <<-48, -64>>}

\* np.random.normal(0, 0.3, 2) and np.random.normal(0, 0.5, 2)
NoiseDraws == {<<0, 0>>, <<30, -45>>}
ImpulseDraws == {<<-100, 50>>}

\* the laser movement vectors handed to step(), in tenths
ActionDraws == {<<0, 0>>, <<10, 7>>, <<-7, -7>>}

\* the environments constructed: the defaults of PlayMeowSimulation, a
\* small pen with a cat that stands still and never engages (speed range
\* (0, 0), engagement threshold 0), the same pen with a short episode, the
\* pen with the default engagement threshold, wider than the pen, where the
\* cat is engaged at every step, and the pen with an engagement threshold
\* narrower than the pen, where the caller decides by the laser's distance
\* whether the cat can engage
EnvConfigs ==
    { [bounds |-> <<-200, 200, -200, 200>>, cat_speed_range |-> <<10, 80>>,
       engagement_threshold |-> 30, max_episode_steps |-> 300],
      [bounds |-> <<0, 10, 0, 10>>, cat_speed_range |-> <<0, 0>>,
       engagement_threshold |-> 0, max_episode_steps |-> 300],
      [bounds |-> <<0, 10, 0, 10>>, cat_speed_range |-> <<0, 0>>,
       engagement_threshold |-> 0, max_episode_steps |-> ShortHorizon],
      [bounds |-> <<0, 10, 0, 10>>, cat_speed_range |-> <<0, 0>>,
       engagement_threshold |-> 30, max_episode_steps |-> 300],
      [bounds |-> <<0, 10, 0, 10>>, cat_speed_range |-> <<0, 0>>,
       engagement_threshold |-> 5, max_episode_steps |-> 300] }

\* the step counter is unbounded in the code; the model follows an episode
\* of the default length for LongHorizon steps when the cat cannot move, a
\* shorter episode for one step past its end, and ShortHorizon steps
\* otherwise; in the pen where the caller decides the engagement an episode
\* is followed up to its first engaged step
StepCap ==
    IF cat_speed_range[2] # 0 THEN ShortHorizon
    ELSE IF engagement_threshold = 5 /\ time_since_engagement # episode_steps
         THEN 0
    ELSE IF max_episode_steps = 300 THEN LongHorizon
    ELSE max_episode_steps + 1

(***************************************************************************)
(* PlayMeowSimulation._get_observation                                     *)
(***************************************************************************)
Features(cat, laser, vel, eng, tse) ==
    LET cat_rel_pos == <<NSub(cat[1], laser[1]), NSub(cat[2], laser[2])>>
        distance_to_boundary_x ==
            IF IsNaN(laser[1]) THEN NaN
            ELSE Min2(laser[1] - bounds[1], bounds[2] - laser[1])
        distance_to_boundary_z ==
            IF IsNaN(laser[2]) THEN NaN
            ELSE Min2(laser[2] - bounds[3], bounds[4] - laser[2])
        cat_speed == ISqrt(Norm2(vel))
        \* the heading angle arctan2(dz, dx) is held as the unit direction
        \* it is the angle of; arctan2(0, 0) = 0 is the angle of +x
        cat_direction == IF cat_speed > 0 THEN Normalize(vel) ELSE <<0, 0>>
        heading == IF cat_direction = <<0, 0>> THEN <<100, 0>> ELSE cat_direction
    IN  <<cat_rel_pos[1], cat_rel_pos[2], vel[1], vel[2], cat_speed, heading,
          IF eng THEN 1 ELSE 0, tse, distance_to_boundary_x,
          distance_to_boundary_z>>

\* the features repeated for every row of the window
GetObservation(cat, laser, vel, eng, tse) ==
    LET features == Features(cat, laser, vel, eng, tse)
    IN  [row \in 1..WindowRows |-> features]

\* the observation reset() and step() return: _get_observation() of the
\* fields as the call leaves them
Observation ==
    GetObservation(cat_pos, laser_pos, cat_velocity, engagement,
                   time_since_engagement)

(***************************************************************************)
(* PlayMeowSimulation.__init__                                             *)
(***************************************************************************)
SimInit(config) ==
    /\ bounds = config.bounds
    /\ cat_speed_range = config.cat_speed_range
    /\ engagement_threshold = config.engagement_threshold
    /\ max_episode_steps = config.max_episode_steps
    /\ cat_pos = <<0, 0>>
    /\ laser_pos = <<0, 0>>
    /\ cat_velocity = <<0, 0>>
    /\ engagement = FALSE
    /\ time_since_engagement = 0
    /\ play_duration = 0
    /\ cat_interest_level = Dbl_1_0
    /\ episode_steps = 0
    /\ sim_ret = [op |-> "init"]
    /\ phase = "Idle"

(***************************************************************************)
(* PlayMeowSimulation.reset                                                *)
(***************************************************************************)
\* faulty variant: the play duration survives the reset
SimReset_KeepDuration(cx, cz, offset) ==
    LET cat == <<cx, cz>>
        laser == <<Clip(cx + offset[1], bounds[1], bounds[2]),
                   Clip(cz + offset[2], bounds[3], bounds[4])>>
    IN  /\ cat_pos' = cat
        /\ laser_pos' = laser
        /\ cat_velocity' = <<0, 0>>
        /\ engagement' = FALSE
        /\ time_since_engagement' = 0
        /\ cat_interest_level' = Dbl_1_0
        /\ episode_steps' = 0
        /\ sim_ret' = [op |-> "reset"]
        /\ phase' = "Active"
        /\ UNCHANGED <<bounds, cat_speed_range, engagement_threshold,
                       max_episode_steps, play_duration>>

SimReset(cx, cz, offset) ==
    LET cat == <<cx, cz>>
        laser == <<Clip(cx + offset[1], bounds[1], bounds[2]),
                   Clip(cz + offset[2], bounds[3], bounds[4])>>
    IN  /\ cat_pos' = cat
        /\ laser_pos' = laser
        /\ cat_velocity' = <<0, 0>>
        /\ engagement' = FALSE
        /\ time_since_engagement' = 0
        /\ play_duration' = 0
        /\ cat_interest_level' = Dbl_1_0
        /\ episode_steps' = 0
        /\ sim_ret' = [op |-> "reset"]
        /\ phase' = "Active"
        /\ UNCHANGED <<bounds, cat_speed_range, engagement_threshold,
                       max_episode_steps>>

(***************************************************************************)
(* PlayMeowSimulation._update_cat_behavior                                 *)
(***************************************************************************)
\* boundary_margin = 0.25 and corner_distance = 0.35, in hundredths
boundary_margin == 25
corner_distance == 35

NearBoundaryX(cat) ==
    cat[1] < bounds[1] + boundary_margin \/ cat[1] > bounds[2] - boundary_margin

NearBoundaryZ(cat) ==
    cat[2] < bounds[3] + boundary_margin \/ cat[2] > bounds[4] - boundary_margin

NearBoundary(cat) == NearBoundaryX(cat) \/ NearBoundaryZ(cat)

InCorner(cat) == NearBoundaryX(cat) /\ NearBoundaryZ(cat)

\* direction * speed, direction in hundredths
Scale(direction, speed) ==
    <<TruncDiv(direction[1] * speed, 100), TruncDiv(direction[2] * speed, 100)>>

DirectionToLaser(cat, laser) ==
    LET vector_to_laser == VSub(laser, cat)
    IN  IF ~HasNaN(laser) /\ Norm2(vector_to_laser) > 0
        THEN Normalize(vector_to_laser)
        ELSE <<0, 0>>

\* 1.0 * (1.0 - dist / boundary_margin), in hundredths
RepulsionTerm(dist) ==
    IF dist < boundary_margin THEN 100 - TruncDiv(100 * dist, boundary_margin)
                              ELSE 0

BoundaryRepulsion(cat) ==
    IF NearBoundary(cat)
    THEN LET dist_to_left == cat[1] - bounds[1]
             dist_to_right == bounds[2] - cat[1]
             dist_to_bottom == cat[2] - bounds[3]
             dist_to_top == bounds[4] - cat[2]
         IN  <<RepulsionTerm(dist_to_left) - RepulsionTerm(dist_to_right),
               RepulsionTerm(dist_to_bottom) - RepulsionTerm(dist_to_top)>>
    ELSE <<0, 0>>

\* np.random.uniform(0.7, 1.0) if interest > 0.7 else uniform(0.3, 0.7), in
\* tenths
RandomFactorDraws(interest) ==
    IF DblLess(Dbl_0_7, interest) THEN {7, 9} ELSE {3, 6}

\* the interested cat that has not caught the laser: the blend of the
\* direction to the laser, noise and boundary repulsion, renormalised, times
\* base_speed * interest * position_factor (weights and factor in tenths)
ChaseVelocity(cat, laser, interest, random_factor, noise, base_speed) ==
    LET in_corner == InCorner(cat)
        near_boundary == NearBoundary(cat)
        repulsion_weight == IF in_corner THEN 15 ELSE IF near_boundary THEN 10 ELSE 0
        direction_weight == IF in_corner THEN 5 ELSE IF near_boundary THEN 7
                            ELSE random_factor
        noise_weight == IF in_corner THEN 5 ELSE IF near_boundary THEN 3
                        ELSE 10 - random_factor
        boundary_repulsion == Normalize(BoundaryRepulsion(cat))
        to_laser == DirectionToLaser(cat, laser)
        direction ==
            Normalize(<<to_laser[1] * direction_weight + noise[1] * noise_weight
                          + boundary_repulsion[1] * repulsion_weight,
                        to_laser[2] * direction_weight + noise[2] * noise_weight
                          + boundary_repulsion[2] * repulsion_weight>>)
        position_factor == IF in_corner THEN 7 ELSE IF near_boundary THEN 8 ELSE 10
        speed == (base_speed * DblMilli(interest) * position_factor) \div 10000
    IN  Scale(direction, speed)

\* self.cat_velocity *= 0.9
Friction(vel) == <<TruncDiv(vel[1] * 9, 10), TruncDiv(vel[2] * 9, 10)>>

\* the velocities the cat can take in this step, before the sudden movement
CatVelocities(cat, laser, vel, interest) ==
    LET distance2 == Distance2(laser, cat)
        speeds == SpeedDraws(cat_speed_range[1], cat_speed_range[2])
    IN  IF DblLess(Dbl_0_3, interest) /\ ~IsNaN(distance2) /\ distance2 < 150 * 150
        THEN IF distance2 < 10 * 10
             THEN \* caught the laser: a random direction at a random speed
                  {Scale(d, sp) : d \in UnitDirs, sp \in speeds}
             ELSE {ChaseVelocity(cat, laser, interest, rf, noise, sp) :
                      rf \in RandomFactorDraws(interest),
                      noise \in NoiseDraws, sp \in speeds}
        ELSE \* not interested: with probability 0.1 a slow random move (near
             \* a boundary its angle is the angle to the centre plus Gaussian
             \* noise, so any direction remains possible), else friction
             {Scale(d, sp) : d \in UnitDirs,
                             sp \in SpeedDraws(0, cat_speed_range[1])}
             \cup {Friction(vel)}

\* with probability 0.01, away from the boundaries, a Gaussian impulse
SuddenMoves(cat, vel) ==
    {vel} \cup (IF ~NearBoundary(cat) THEN {VAdd(vel, imp) : imp \in ImpulseDraws}
                                     ELSE {})

\* faulty variant: the position update without the bounce at the walls
BounceAxis_NoBounce(pos, v, lo, hi) == <<pos + v, v>>

\* faulty variant: the bounce keeps the full speed
BounceAxis_FullEnergy(pos, v, lo, hi) ==
    IF pos + v < lo THEN <<lo + 1, Abs(v)>>
    ELSE IF pos + v > hi THEN <<hi - 1, -Abs(v)>>
    ELSE <<pos + v, v>>

\* one axis of the position update: <<new position, new velocity>>
BounceAxis(pos, v, lo, hi) ==
    IF pos + v < lo THEN <<lo + 1, Abs(v) \div 2>>
    ELSE IF pos + v > hi THEN <<hi - 1, -(Abs(v) \div 2)>>
    ELSE <<pos + v, v>>

\* the cat after the update, for velocity v chosen above:
\* [pos |-> new cat_pos, vel |-> new cat_velocity, by |-> v]
MoveCat(cat, v) ==
    LET x == BounceAxis(cat[1], v[1], bounds[1], bounds[2])
        z == BounceAxis(cat[2], v[2], bounds[3], bounds[4])
    IN  [pos |-> <<x[1], z[1]>>, vel |-> <<x[2], z[2]>>, by |-> v]

UpdateCatBehavior(cat, laser, vel, interest) ==
    {MoveCat(cat, w) : w \in UNION {SuddenMoves(cat, v) :
                                      v \in CatVelocities(cat, laser, vel, interest)}}

(***************************************************************************)
(* PlayMeowSimulation.step                                                 *)
(***************************************************************************)
\* one axis of the laser move: np.clip(pos + delta, lo, hi), which is nan
\* when pos or delta is
MoveAxis(pos, delta, lo, hi) ==
    IF IsNaN(pos) \/ IsNaN(delta) THEN NaN ELSE Clip(pos + delta, lo, hi)

\* faulty variant: the laser is moved but not clamped on the z axis
MoveLaser_UnclampedZ(laser, action) ==
    <<Clip(laser[1] + action[1], bounds[1], bounds[2]), laser[2] + action[2]>>

\* self.laser_pos + action * 0.1, clipped to the bounds
MoveLaser(laser, action) ==
    <<MoveAxis(laser[1], action[1], bounds[1], bounds[2]),
      MoveAxis(laser[2], action[2], bounds[3], bounds[4])>>

\* faulty variant: the rise without the cap at 1.0
InterestEngaged_NoCap(interest) == DblAdd(interest, Dbl_0_05)

\* engaged: interest + 0.05 capped at 1.0
InterestEngaged(interest) == DblMin(Dbl_1_0, DblAdd(interest, Dbl_0_05))

\* faulty variant: a disengaged step costs 0.05 of interest
InterestDisengaged_Fast(interest) ==
    DblMax(Dbl_0_0, DblSub(interest, Dbl_0_05))

\* faulty variant: the decay without the floor at 0.0
InterestDisengaged_NoFloor(interest) == DblSub(interest, Dbl_0_01)

\* not engaged: interest - 0.01 floored at 0.0
InterestDisengaged(interest) == DblMax(Dbl_0_0, DblSub(interest, Dbl_0_01))

Corners ==
    << <<bounds[1], bounds[3]>>, <<bounds[1], bounds[4]>>,
       <<bounds[2], bounds[3]>>, <<bounds[2], bounds[4]>> >>

\* the loop over the corners stops at the first corner nearer than
\* corner_distance: 0.1 * (1 - corner_dist / corner_distance), else 0
CornerPenalty(cat) ==
    LET near == {i \in 1..4 :
                   Norm2(VSub(cat, Corners[i])) < corner_distance * corner_distance}
    IN  IF near = {} THEN 0
        ELSE LET first == CHOOSE i \in near : \A j \in near : i <= j
                 corner_dist == ISqrt(Norm2(VSub(cat, Corners[first])) * 10000)
             IN  1000 - (corner_dist * 10) \div corner_distance

\* 0.05 * (1 - min_dist_to_boundary / boundary_margin) near a wall, else 0
BoundaryPenalty(cat) ==
    LET min_dist_to_boundary ==
            Min2(Min2(cat[1] - bounds[1], bounds[2] - cat[1]),
                 Min2(cat[2] - bounds[3], bounds[4] - cat[2]))
    IN  IF min_dist_to_boundary < boundary_margin
        THEN 500 - TruncDiv(500 * min_dist_to_boundary, boundary_margin)
        ELSE 0

\* the reward of a step, in ten-thousandths
StepReward(eng, session_complete, session_abandoned, distance2, cat) ==
    (IF eng THEN 1000 ELSE -2000)
    + (IF session_complete THEN 4000 ELSE IF session_abandoned THEN -3000 ELSE 0)
    + (IF ~IsNaN(distance2) /\ 20 * 20 <= distance2 /\ distance2 <= 100 * 100
       THEN 100 ELSE 0)
    - BoundaryPenalty(cat)
    - CornerPenalty(cat)

\* faulty variant: an engaged step leaves the counter running
TimeSinceEngagement_NoReset(eng, tse) == tse + 1

\* self.time_since_engagement = 0 if engaged, else += 1
TimeSinceEngagement(eng, tse) == IF eng THEN 0 ELSE tse + 1

\* faulty variant: the session completes on its duration alone
SessionComplete_DurationOnly(duration, interest) == duration >= 100

\* session_complete = self.play_duration >= 100 and
\*                    self.cat_interest_level > 0.6
SessionComplete(duration, interest) ==
    duration >= 100 /\ DblLess(Dbl_0_6, interest)

\* faulty variant: the session counts as abandoned below 0.3
SessionAbandoned_Below03(interest) == DblLess(interest, Dbl_0_3)

\* session_abandoned = self.cat_interest_level < 0.2
SessionAbandoned(interest) == DblLess(interest, Dbl_0_2)

\* faulty variant: done without the step cap
StepDone_NoCap(session_complete, session_abandoned, steps) ==
    session_complete \/ session_abandoned

\* faulty variant: done without the abandonment term
StepDone_NoAbandon(session_complete, session_abandoned, steps) ==
    session_complete \/ steps >= max_episode_steps

\* done = session_complete or session_abandoned or episode_steps >= max
\* faulty variant: the step cap is tested with > instead of >=
StepDone_StrictCap(session_complete, session_abandoned, steps) ==
    session_complete \/ session_abandoned \/ steps > max_episode_steps

StepDone(session_complete, session_abandoned, steps) ==
    session_complete \/ session_abandoned \/ steps >= max_episode_steps

\* faulty variant: the cat engages whenever the laser is close
Engaged_DistanceOnly(distance2, interest) ==
    ~IsNaN(distance2) /\ distance2 < engagement_threshold * engagement_threshold

\* engagement = (distance_to_cat < engagement_threshold) and
\*              (cat_interest_level > 0.3)
Engaged(distance2, interest) ==
    /\ ~IsNaN(distance2)
    /\ distance2 < engagement_threshold * engagement_threshold
    /\ DblLess(Dbl_0_3, interest)

\* step(action), with moved the outcome of the cat's random behaviour
SimStep(action, moved) ==
    LET laser == MoveLaser(laser_pos, action)
        distance2 == Distance2(moved.pos, laser)
        eng == Engaged(distance2, cat_interest_level)
        tse == TimeSinceEngagement(eng, time_since_engagement)
        interest == IF eng THEN InterestEngaged(cat_interest_level)
                           ELSE InterestDisengaged(cat_interest_level)
        duration == play_duration + 1
        session_complete == SessionComplete(duration, interest)
        session_abandoned == SessionAbandoned(interest)
        done == StepDone(session_complete, session_abandoned, episode_steps + 1)
    IN  /\ episode_steps' = episode_steps + 1
        /\ laser_pos' = laser
        /\ cat_pos' = moved.pos
        /\ cat_velocity' = moved.vel
        /\ engagement' = eng
        /\ time_since_engagement' = tse
        /\ cat_interest_level' = interest
        /\ play_duration' = duration
        /\ sim_ret' = [op |-> "step", action |-> action,
                       velocity |-> moved.by,
                       reward |-> StepReward(eng, session_complete,
                                             session_abandoned, distance2, moved.pos),
                       done |-> done,
                       info |-> [distance2_to_cat |-> distance2,
                                 engagement |-> eng,
                                 cat_interest_level |-> interest,
                                 in_prohibited_zone |-> FALSE,
                                 session_complete |-> session_complete,
                                 session_abandoned |-> session_abandoned]]
        /\ phase' = IF phase = "Idle" THEN "Idle"
                    ELSE IF done THEN "Done" ELSE phase
        /\ UNCHANGED <<bounds, cat_speed_range, engagement_threshold,
                       max_episode_steps>>

(***************************************************************************)
(* ReinforcementLearning (playmeow/reinforcement.py)                       *)
(***************************************************************************)
VARIABLES
    base_weights,           \* base_model.model.get_weights(): one number
    target_weights,         \*   per parameter tensor; likewise the target's
    gamma,                  \* in hundredths
    replay_buffer,          \* sequence of <<state, action, reward,
                            \*               next_state, done>>
    replay_buffer_size,
    \* what the last call on the agent was and what it returned
    agent_ret

agentVars == <<base_weights, target_weights, gamma, replay_buffer,
               replay_buffer_size, agent_ret>>

\* every experience a caller has handed to add_experience, in order (kept
\* by the caller that drives the agent on its own)
VARIABLE added

\* capacity of the replay buffer, add_experience calls followed, and the
\* largest batch size asked for
ReplayCapacity == 2
MaxAdds == 3
MaxBatch == 3

\* weight vectors of the network (as handed to the agent, and as a gradient
\* step of the Keras optimizer may leave them), and the losses it reports
OnlineDraws == {<<0, 2>>, <<2, -2>>}
LossDraws == {5}

\* tau of update_target_model, in tenths (0.1 is the default)
TauDraws == {0, 1, 5, 10}

\* np.random.random(), and the epsilon handed to epsilon_greedy_action
RandomDraws == {Dbl_0_0, Dbl_0_5, Dbl_0_9}
EpsilonDraws == {Dbl_0_0, Dbl_0_1, Dbl_1_0}

Sgn(x) == IF x > 0 THEN 1 ELSE IF x < 0 THEN -1 ELSE 0

\* The network of PlayMeowModel: a deterministic function of the weights and
\* the input window whose two outputs lie in [-1, 1] (tanh), in tenths.
\* This stand-in steers by the sign of the cat's offset from the laser.
Predict(weights, observation) ==
    LET features == observation[1]
    IN  <<Clip(weights[1] * Sgn(features[1]) + weights[2], -10, 10),
          Clip(weights[1] + weights[2] * Sgn(features[2]), -10, 10)>>

\* n / d rounded to the nearest integer, ties to even
RoundDiv(n, d) ==
    LET q == n \div d
        r == n % d
    IN  IF 2 * r > d \/ (2 * r = d /\ q % 2 = 1) THEN q + 1 ELSE q

\* faulty variant: a disengaged step costs as much as an engaged one earns
CalculateReward_SymmetricEngagement(eng, distance2, in_prohibited_zone, session_complete, session_abandoned) ==
    (IF eng THEN 1000 ELSE -1000)
    + (IF session_complete THEN 4000 ELSE IF session_abandoned THEN -3000 ELSE 0)
    + (IF ~IsNaN(distance2) /\ 20 * 20 <= distance2 /\ distance2 <= 100 * 100
       THEN 100 ELSE 0)
    - (IF in_prohibited_zone THEN 1000 ELSE 0)

\* calculate_reward(engagement, distance, in_prohibited_zone,
\* session_complete, session_abandoned), in ten-thousandths; the distance is
\* handed over squared
CalculateReward(eng, distance2, in_prohibited_zone, session_complete, session_abandoned) ==
    (IF eng THEN 1000 ELSE -2000)
    + (IF session_complete THEN 4000 ELSE IF session_abandoned THEN -3000 ELSE 0)
    + (IF ~IsNaN(distance2) /\ 20 * 20 <= distance2 /\ distance2 <= 100 * 100
       THEN 100 ELSE 0)
    - (IF in_prohibited_zone THEN 1000 ELSE 0)

\* ReinforcementLearning.__init__(model, gamma, replay_buffer_size): the
\* target model is a clone carrying the model's weights
AgentInit(weights, size) ==
    /\ base_weights = weights
    /\ target_weights = weights
    /\ gamma = 99
    /\ replay_buffer = <<>>
    /\ replay_buffer_size = size
    /\ agent_ret = [op |-> "init"]

\* faulty variant: a full buffer drops its newest entry instead of its oldest
Evict_Newest(buffer) == SubSeq(buffer, 1, Len(buffer) - 1)

\* self.replay_buffer.pop(0)
Evict(buffer) == Tail(buffer)

\* add_experience(state, action, reward, next_state, done)
AgentAddExperience(experience) ==
    LET appended == Append(replay_buffer, experience)
    IN  /\ replay_buffer' = IF Len(appended) > replay_buffer_size
                            THEN Evict(appended) ELSE appended
        /\ agent_ret' = [op |-> "add_experience"]
        /\ UNCHANGED <<base_weights, target_weights, gamma, replay_buffer_size>>

\* faulty variant: positions drawn with replacement
Samples_WithReplacement(n, k) == [1..k -> 1..n]

\* np.random.choice(n, k, replace=False): k distinct positions of the buffer
Samples(n, k) ==
    {s \in [1..k -> 1..n] : \A i, j \in 1..k : i # j => s[i] # s[j]}

\* the network's outputs in ten-thousandths, the unit of the rewards
QValues(weights, observation) ==
    LET q == Predict(weights, observation)
    IN  <<q[1] * 1000, q[2] * 1000>>

\* faulty variant: the online model's prediction for next_state is used (the
\* caller's next_weights are ignored)
TargetRow_OnlineNext(experience, next_weights) ==
    LET next_q == QValues(base_weights, experience[4])
        value == IF experience[5] THEN experience[3]
                 ELSE experience[3]
                      + TruncDiv(gamma * Max2(next_q[1], next_q[2]), 100)
    IN  <<value, value>>

\* the row of target_q for one sampled experience: the scalar
\* rewards[i] (done) or rewards[i] + gamma * max(next_q[i]) is assigned to
\* the whole row
TargetRow(experience, next_weights) ==
    LET next_q == QValues(next_weights, experience[4])
        value == IF experience[5] THEN experience[3]
                 ELSE experience[3]
                      + TruncDiv(gamma * Max2(next_q[1], next_q[2]), 100)
    IN  <<value, value>>

\* faulty variant: a batch that is too large is answered by training on the
\* whole buffer instead of returning None
EnoughData_Always(batch_size) == TRUE

\* the negation of "len(self.replay_buffer) < batch_size"
EnoughData(batch_size) == Len(replay_buffer) >= batch_size

\* faulty variant: the gradient step is applied to the target model
TrainedTarget_Trained(new_weights) == new_weights

\* the target model's weights after base_model.model.train_on_batch
TrainedTarget(new_weights) == target_weights

\* train_on_batch(batch_size); new_weights and loss are what the gradient
\* step on the sampled batch produces.  np.random.choice raises ValueError
\* when asked for more distinct positions than the buffer holds.
AgentTrainOnBatch(batch_size) ==
    IF ~EnoughData(batch_size)
    THEN /\ agent_ret' = [op |-> "train_on_batch", batch_size |-> batch_size,
                          result |-> "None"]
         /\ UNCHANGED <<base_weights, target_weights, gamma, replay_buffer,
                        replay_buffer_size>>
    ELSE IF batch_size > Len(replay_buffer)
    THEN /\ agent_ret' = [op |-> "train_on_batch", batch_size |-> batch_size,
                          result |-> "ValueError"]
         /\ UNCHANGED <<base_weights, target_weights, gamma, replay_buffer,
                        replay_buffer_size>>
    ELSE \E indices \in Samples(Len(replay_buffer), batch_size),
            new_weights \in OnlineDraws, loss \in LossDraws :
            LET batch == [i \in DOMAIN indices |-> replay_buffer[indices[i]]]
            IN  /\ base_weights' = new_weights
                /\ target_weights' = TrainedTarget(new_weights)
                /\ agent_ret' =
                       [op |-> "train_on_batch", batch_size |-> batch_size,
                        result |-> "loss", loss |-> loss, indices |-> indices,
                        current_q |-> [i \in DOMAIN batch |->
                                         QValues(base_weights, batch[i][1])],
                        target_q |-> [i \in DOMAIN batch |->
                                        TargetRow(batch[i], target_weights)]]
                /\ UNCHANGED <<gamma, replay_buffer, replay_buffer_size>>

\* faulty variant: the roles of the online and the target weights exchanged
SoftUpdate_Swapped(tau, weight, target_weight) ==
    RoundDiv(tau * target_weight + (10 - tau) * weight, 10)

\* tau * weights[i] + (1 - tau) * target_weights[i], tau in tenths, rounded
\* to the weight grid
SoftUpdate(tau, weight, target_weight) ==
    RoundDiv(tau * weight + (10 - tau) * target_weight, 10)

\* update_target_model(tau)
AgentUpdateTargetModel(tau) ==
    /\ target_weights' = [i \in DOMAIN base_weights |->
                            SoftUpdate(tau, base_weights[i], target_weights[i])]
    /\ agent_ret' = [op |-> "update_target_model", tau |-> tau]
    /\ UNCHANGED <<base_weights, gamma, replay_buffer, replay_buffer_size>>

\* faulty variant: a draw equal to epsilon explores as well
Explores_AtMost(random, epsilon) == ~DblLess(epsilon, random)

\* np.random.random() < epsilon
Explores(random, epsilon) == DblLess(random, epsilon)

\* the unit vectors of the random angle, which is drawn only when the
\* action is a random one
DirectionDraws(random, epsilon) ==
    IF Explores(random, epsilon) THEN UnitDirs ELSE {<<100, 0>>}

\* epsilon_greedy_action(state, epsilon): random is np.random.random() and
\* direction the unit vector of the random angle
AgentEpsilonGreedyAction(state, epsilon, random, direction) ==
    /\ agent_ret' =
           [op |-> "epsilon_greedy_action",
            state |-> state, epsilon |-> epsilon,
            explored |-> Explores(random, epsilon),
            action |-> IF Explores(random, epsilon)
                       THEN <<TruncDiv(direction[1], 10), TruncDiv(direction[2], 10)>>
                       ELSE Predict(base_weights, state)]
    /\ UNCHANGED <<base_weights, target_weights, gamma, replay_buffer,
                   replay_buffer_size>>

(***************************************************************************)
(* PlayMeowTrainer.train_reinforcement (playmeow/trainer.py)               *)
(***************************************************************************)
VARIABLES
    \* the arguments and locals of the running train_reinforcement call
    \* under their names in the source, and pc, the statement it is at
    train_frame,
    \* update_target_model calls made so far in the current episode
    target_updates,
    \* what the environment returned in this call: for every episode begun,
    \* the <<reward, done>> of each of its steps, in order
    episode_log

trainerVars == <<train_frame, target_updates, episode_log>>

\* the globals of the web application (webapp/app.py) that its request
\* handlers, its workers and its status endpoint share, and the threads'
\* positions
VARIABLES
    \* the status dictionary, its entries 'status' and 'rewards'; status
    \* "None" stands for current_training = None
    current_training,
    is_training,
    \* for every POST /train request, the statement the background thread
    \* running its training_worker is at ("idle": no thread)
    worker_pc,
    \* the request thread serving /training/status: where it is, and the
    \* entries it has read for its response
    observer,
    \* for every POST /train request, where its request thread is, and the
    \* form field train_rl
    train_request,
    is_simulation_running,
    \* current_simulation['status'], "None" for current_simulation = None
    current_simulation,
    \* where the request thread of the POST /simulate request is
    simulate_request,
    \* the locals of simulation_worker and pc, the statement it is at
    simulation_frame

trainingVars ==
    <<current_training, is_training, worker_pc, observer, train_request>>

simulationVars ==
    <<is_simulation_running, current_simulation, simulate_request,
      simulation_frame>>

webVars == <<trainingVars, simulationVars>>

\* concurrent POST /train requests followed, and the steps of an episode of
\* simulation_worker (300 in the code)
NRequests == 2
SimulationSteps == 2

Requests == 1..NRequests

\* the web application before any request
WebIdle ==
    /\ current_training = [status |-> "None", rewards |-> <<>>]
    /\ is_training = FALSE
    /\ worker_pc = [r \in Requests |-> "idle"]
    /\ observer = [pc |-> "idle", status |-> "not_started", rewards |-> <<>>]
    /\ train_request = [r \in Requests |-> [pc |-> "none", use_rl |-> FALSE]]
    /\ is_simulation_running = FALSE
    /\ current_simulation = "None"
    /\ simulate_request = "none"
    /\ simulation_frame = [pc |-> "idle", num_episodes |-> 0, episode |-> 0,
                           steps |-> 0, done |-> FALSE]

(***************************************************************************)
(* UnityIntegration (playmeow/unity_integration.py), the configuration     *)
(* module (playmeow/config.py) and the servo driver                        *)
(* (ESP32/servo_control.py)                                                *)
(***************************************************************************)
VARIABLES
    \* the records appended and not yet saved or cleared; a record is held as
    \* its number in the order of appending
    data_buffer,
    \* "free", or the operation that holds buffer_lock
    buffer_lock,
    \* <<x, z>>, and <<>> for None
    last_cat_pos,
    last_laser_pos,
    \* in tenths of a second
    last_prediction_time,
    \* for every client-handler thread, where it is, the message it took
    \* last and the response _process_data returned for it
    client_handler,
    \* the thread that calls save_recorded_data and clear_data_buffer: where
    \* it is, the rows written by the save in progress, and what its last
    \* call returned (the count of a clear in num_records)
    recorder,
    \* records appended so far, and for every record how many times a save
    \* that returned True has written it and how many times a clear has
    \* counted it
    record_log

unityVars == <<data_buffer, buffer_lock, last_cat_pos, last_laser_pos,
               last_prediction_time, client_handler, recorder, record_log>>

\* records followed, and the last time.time() a message is processed at, in
\* tenths of a second
MaxRecords == 2
MaxTime == 1

Handlers == {1, 2}

\* UnityIntegration.__init__, and no client connected
UnityIdle ==
    /\ data_buffer = <<>>
    /\ buffer_lock = "free"
    /\ last_cat_pos = <<>>
    /\ last_laser_pos = <<>>
    /\ last_prediction_time = 0
    /\ client_handler =
           [h \in Handlers |->
              [pc |-> "recv",
               data |-> [kind |-> "None", fields |-> {}, cat |-> <<0, 0>>],
               response |-> "None"]]
    /\ recorder = [pc |-> "idle", written |-> {}, op |-> "None",
                   result |-> "None", num_records |-> 0]
    /\ record_log = [appended |-> 0,
                     saved |-> [n \in 1..MaxRecords |-> 0],
                     cleared |-> [n \in 1..MaxRecords |-> 0]]

VARIABLES
    \* the dictionary objects the configuration module refers to, by name:
    \* the two nested dictionaries of _DEFAULT_CONFIG followed ("common",
    \* "webapp") and the one read from a user file ("user")
    config_heap,
    \* the global _config: whether it is None, and else its top-level
    \* dictionary, from the section's name to the object stored under it
    global_config,
    \* what the last call on the module was, and the configuration
    \* get_config() returned
    config_ret

configVars == <<config_heap, global_config, config_ret>>

\* the sections a top-level dictionary maps, with the dictionary under each
Resolve(top, heap) == [section \in DOMAIN top |-> heap[top[section]]]

\* _DEFAULT_CONFIG as the module is imported: its top-level dictionary, and
\* the nested ones with "prediction_rate": 0.1 (in tenths) and "port": 5000
DefaultTop == [section \in {"common", "webapp"} |-> section]

DefaultHeap ==
    [ref \in {"common", "webapp", "user"} |->
       IF ref = "common" THEN [key \in {"prediction_rate"} |-> 1]
       ELSE IF ref = "webapp" THEN [key \in {"port"} |-> 5000]
       ELSE [key \in {} |-> 0]]

\* the module before load_config is called
ConfigIdle ==
    /\ config_heap = DefaultHeap
    /\ global_config = [none |-> TRUE, top |-> DefaultTop]
    /\ config_ret = [op |-> "import", path |-> "None", result |-> "None",
                     config |-> Resolve(DefaultTop, DefaultHeap)]

VARIABLES
    \* the duty handed to pwm.duty() last, -1 before the first call
    pwm_duty,
    \* what the last call on the servo was, and the pulse width it computed
    servo_ret

servoVars == <<pwm_duty, servo_ret>>

ServoIdle ==
    /\ pwm_duty = -1
    /\ servo_ret = [op |-> "init", speed_percent |-> 0, pulse |-> 0]

otherVars == <<unityVars, configVars, servoVars>>

\* episodes asked for, and the step limit of the environment handed to the
\* trainer (main.py sets sim.max_episode_steps from the configuration)
NEpisodes == 3
EpisodeSteps == 2

\* the environment train_reinforcement is run on
TrainerEnv ==
    [bounds |-> <<0, 1, 0, 1>>, cat_speed_range |-> <<0, 0>>,
     engagement_threshold |-> 0, max_episode_steps |-> EpisodeSteps]

\* <<initial_epsilon, final_epsilon, epsilon_decay_steps>>
EpsilonSchedules ==
    { <<Dbl_1_0, Dbl_0_1, 2>>, <<Dbl_1_0, Dbl_0_01, 1>>, <<Dbl_0_5, Dbl_0_5, 1>> }

\* faulty variant: the decay is not floored at final_epsilon
EpsilonFor_NoFloor(initial_epsilon, final_epsilon, epsilon_decay_steps, episode) ==
    DblSub(initial_epsilon,
           DblDivInt(DblMulInt(DblSub(initial_epsilon, final_epsilon), episode),
                     epsilon_decay_steps))

\* max(final_epsilon, initial_epsilon
\*     - (initial_epsilon - final_epsilon) * episode / epsilon_decay_steps)
\* (every intermediate double is computed once and then named)
EpsilonFor(initial_epsilon, final_epsilon, epsilon_decay_steps, episode) ==
    CHOOSE epsilon \in
        {DblMax(final_epsilon, DblSub(initial_epsilon, decayed)) :
           decayed \in
             {DblDivInt(product, epsilon_decay_steps) :
                product \in
                  {DblMulInt(span, episode) :
                     span \in {DblSub(initial_epsilon, final_epsilon)}}}} : TRUE

\* faulty variant: the total is overwritten by the last reward
Accumulate_Overwrite(total_reward, reward) == reward

\* total_reward += reward
Accumulate(total_reward, reward) == total_reward + reward

\* faulty variant: the loop keeps the observation it started the episode with
AdvanceState_Stale(state, next_state) == state

\* state = next_state
AdvanceState(state, next_state) == next_state

\* no call of train_reinforcement is running
TrainerIdle ==
    /\ train_frame = [pc |-> "idle"]
    /\ target_updates = 0
    /\ episode_log = <<>>

\* the call train_reinforcement(simulation_env, n_episodes, batch_size,
\* initial_epsilon, final_epsilon, epsilon_decay_steps) at its for loop
TrainReinforcement(n_episodes, batch_size, schedule) ==
    /\ train_frame =
           [pc |-> "for", n_episodes |-> n_episodes, batch_size |-> batch_size,
            initial_epsilon |-> schedule[1], final_epsilon |-> schedule[2],
            epsilon_decay_steps |-> schedule[3],
            episode_rewards |-> <<>>, episode |-> 0,
            state |-> <<>>, done |-> FALSE, total_reward |-> 0,
            epsilon |-> Dbl_0_0, action |-> <<>>, next_state |-> <<>>,
            reward |-> 0, loss |-> <<>>]
    /\ target_updates = 0
    /\ episode_log = <<>>

\* for episode in range(n_episodes): state = simulation_env.reset();
\* done = False; total_reward = 0; epsilon = max(...)
TrainEpisodeBegin ==
    /\ train_frame.pc = "for"
    /\ train_frame.episode < train_frame.n_episodes
    /\ \E cx \in UniformDraws(bounds[1], bounds[2]),
          cz \in UniformDraws(bounds[3], bounds[4]),
          offset \in ResetOffsets :
           SimReset(cx, cz, offset)
    /\ train_frame' =
           [train_frame EXCEPT
              !.state = Observation',
              !.done = FALSE,
              !.total_reward = 0,
              !.epsilon = EpsilonFor(train_frame.initial_epsilon,
                                     train_frame.final_epsilon,
                                     train_frame.epsilon_decay_steps,
                                     train_frame.episode),
              !.pc = "while"]
    /\ target_updates' = 0
    /\ episode_log' = Append(episode_log, <<>>)
    /\ UNCHANGED <<agentVars, added, webVars, otherVars>>

\* the for loop is exhausted: return episode_rewards
TrainReturn ==
    /\ train_frame.pc = "for"
    /\ train_frame.episode >= train_frame.n_episodes
    /\ train_frame' = [train_frame EXCEPT !.pc = "return"]
    /\ UNCHANGED <<simVars, agentVars, target_updates, episode_log, added, webVars, otherVars>>

\* while not done: action = self.rl_agent.epsilon_greedy_action(state, epsilon)
TrainSelectAction ==
    /\ train_frame.pc = "while"
    /\ ~train_frame.done
    /\ \E random \in RandomDraws :
         \E direction \in DirectionDraws(random, train_frame.epsilon) :
           AgentEpsilonGreedyAction(train_frame.state, train_frame.epsilon,
                                    random, direction)
    /\ train_frame' = [train_frame EXCEPT !.action = agent_ret'.action,
                                          !.pc = "step"]
    /\ UNCHANGED <<simVars, target_updates, episode_log, added, webVars, otherVars>>

\* next_state, reward, done, info = simulation_env.step(action)
TrainEnvStep ==
    /\ train_frame.pc = "step"
    /\ \E moved \in UpdateCatBehavior(cat_pos,
                                      MoveLaser(laser_pos, train_frame.action),
                                      cat_velocity, cat_interest_level) :
           SimStep(train_frame.action, moved)
    /\ train_frame' = [train_frame EXCEPT !.next_state = Observation',
                                          !.reward = sim_ret'.reward,
                                          !.done = sim_ret'.done,
                                          !.pc = "add"]
    /\ episode_log' =
           [episode_log EXCEPT
              ![Len(episode_log)] = Append(@, <<sim_ret'.reward, sim_ret'.done>>)]
    /\ UNCHANGED <<agentVars, target_updates, added, webVars, otherVars>>

\* self.rl_agent.add_experience(state, action, reward, next_state, done)
TrainAddExperience ==
    /\ train_frame.pc = "add"
    /\ AgentAddExperience(<<train_frame.state, train_frame.action,
                            train_frame.reward, train_frame.next_state,
                            train_frame.done>>)
    /\ train_frame' = [train_frame EXCEPT !.pc = "train"]
    /\ UNCHANGED <<simVars, target_updates, episode_log, added, webVars, otherVars>>

\* loss = self.rl_agent.train_on_batch(batch_size)
TrainBatch ==
    /\ train_frame.pc = "train"
    /\ AgentTrainOnBatch(train_frame.batch_size)
    /\ train_frame' =
           [train_frame EXCEPT
              !.loss = IF agent_ret'.result = "loss"
                       THEN <<agent_ret'.loss>> ELSE <<>>,
              !.pc = IF agent_ret'.result = "ValueError"
                     THEN "raised" ELSE "update"]
    /\ UNCHANGED <<simVars, target_updates, episode_log, added, webVars, otherVars>>

\* if episode % 10 == 0: self.rl_agent.update_target_model()
\* state = next_state; total_reward += reward
TrainUpdateTarget ==
    /\ train_frame.pc = "update"
    /\ IF train_frame.episode % 10 = 0
       THEN /\ AgentUpdateTargetModel(1)
            /\ target_updates' = target_updates + 1
       ELSE UNCHANGED <<agentVars, target_updates>>
    /\ train_frame' =
           [train_frame EXCEPT
              !.state = AdvanceState(train_frame.state, train_frame.next_state),
              !.total_reward = Accumulate(train_frame.total_reward,
                                          train_frame.reward),
              !.pc = "while"]
    /\ UNCHANGED <<simVars, episode_log, added, webVars, otherVars>>

\* the while loop ends: episode_rewards.append(total_reward)
TrainEpisodeEnd ==
    /\ train_frame.pc = "while"
    /\ train_frame.done
    /\ train_frame' =
           [train_frame EXCEPT
              !.episode_rewards = Append(train_frame.episode_rewards,
                                         train_frame.total_reward),
              !.episode = train_frame.episode + 1,
              !.pc = "for"]
    /\ UNCHANGED <<simVars, agentVars, target_updates, episode_log, added, webVars, otherVars>>

(***************************************************************************)
(* The environment driven by an arbitrary caller                           *)
(***************************************************************************)
vars == <<simVars, agentVars, trainerVars, added, webVars, otherVars>>

Reset ==
    /\ \E cx \in UniformDraws(bounds[1], bounds[2]),
          cz \in UniformDraws(bounds[3], bounds[4]),
          offset \in ResetOffsets :
           SimReset(cx, cz, offset)
    /\ UNCHANGED <<agentVars, trainerVars, added, webVars, otherVars>>

Step ==
    /\ episode_steps < StepCap
    /\ \E action \in ActionDraws :
         \E moved \in UpdateCatBehavior(cat_pos, MoveLaser(laser_pos, action),
                                        cat_velocity, cat_interest_level) :
            SimStep(action, moved)
    /\ UNCHANGED <<agentVars, trainerVars, added, webVars, otherVars>>

Init ==
    /\ \E config \in EnvConfigs : SimInit(config)
    /\ AgentInit(<<0, 2>>, ReplayCapacity)
    /\ TrainerIdle
    /\ added = <<>>
    /\ WebIdle
    /\ UnityIdle /\ ConfigIdle /\ ServoIdle

Next == Reset \/ Step

Spec == Init /\ [][Next]_vars

(***************************************************************************)
(* The environment driven by a caller that also hands step() malformed     *)
(* actions                                                                 *)
(***************************************************************************)
\* laser movement vectors with a component that is not a number or far out
\* of range (a component of +-inf ends at the same wall as the latter)
MalformedDraws == {<<NaN, 0>>, <<100000, -100000>>}

StepMalformed ==
    /\ episode_steps < StepCap
    /\ \E action \in MalformedDraws :
         \E moved \in UpdateCatBehavior(cat_pos, MoveLaser(laser_pos, action),
                                        cat_velocity, cat_interest_level) :
            SimStep(action, moved)
    /\ UNCHANGED <<agentVars, trainerVars, added, webVars, otherVars>>

InitUntrusted ==
    /\ \E config \in EnvConfigs :
          config.cat_speed_range[2] # 0 /\ SimInit(config)
    /\ AgentInit(<<0, 2>>, ReplayCapacity)
    /\ TrainerIdle
    /\ added = <<>>
    /\ WebIdle
    /\ UnityIdle /\ ConfigIdle /\ ServoIdle

NextUntrusted == Reset \/ Step \/ StepMalformed

SpecUntrusted == InitUntrusted /\ [][NextUntrusted]_vars

(***************************************************************************)
(* The agent driven by an arbitrary caller                                 *)
(***************************************************************************)
\* the experiences the caller hands over
ExperienceDraws ==
    { <<GetObservation(<<0, 0>>, <<50, 0>>, <<0, 0>>, FALSE, 0), <<10, 0>>,
        -3000, GetObservation(<<0, 0>>, <<60, 0>>, <<0, 0>>, FALSE, 1), FALSE>>,
      <<GetObservation(<<20, 10>>, <<10, 10>>, <<-5, 0>>, TRUE, 0), <<-7, -7>>,
        2000, GetObservation(<<15, 10>>, <<3, 3>>, <<-4, 0>>, TRUE, 0), TRUE>> }

AddExperience ==
    /\ Len(added) < MaxAdds
    /\ \E experience \in ExperienceDraws :
           /\ AgentAddExperience(experience)
           /\ added' = Append(added, experience)
    /\ UNCHANGED <<simVars, trainerVars, webVars, otherVars>>

TrainOnBatch ==
    /\ \E batch_size \in 1..MaxBatch : AgentTrainOnBatch(batch_size)
    /\ UNCHANGED <<simVars, trainerVars, added, webVars, otherVars>>

UpdateTargetModel ==
    /\ \E tau \in TauDraws : AgentUpdateTargetModel(tau)
    /\ UNCHANGED <<simVars, trainerVars, added, webVars, otherVars>>

EpsilonGreedyAction ==
    /\ \E experience \in ExperienceDraws, epsilon \in EpsilonDraws,
          random \in RandomDraws :
         \E direction \in DirectionDraws(random, epsilon) :
           AgentEpsilonGreedyAction(experience[1], epsilon, random, direction)
    /\ UNCHANGED <<simVars, trainerVars, added, webVars, otherVars>>

InitAgent ==
    /\ SimInit(CHOOSE config \in EnvConfigs : config.engagement_threshold = 30)
    /\ \E weights \in OnlineDraws : AgentInit(weights, ReplayCapacity)
    /\ TrainerIdle
    /\ added = <<>>
    /\ WebIdle
    /\ UnityIdle /\ ConfigIdle /\ ServoIdle

NextAgent ==
    AddExperience \/ TrainOnBatch \/ UpdateTargetModel \/ EpsilonGreedyAction

SpecAgent == InitAgent /\ [][NextAgent]_vars

(***************************************************************************)
(* A run of train_reinforcement                                            *)
(***************************************************************************)
InitTrainer ==
    /\ SimInit(TrainerEnv)
    /\ \E weights \in OnlineDraws : AgentInit(weights, 1)
    /\ \E n_episodes \in {1, NEpisodes}, batch_size \in {1, MaxBatch},
          schedule \in EpsilonSchedules :
           TrainReinforcement(n_episodes, batch_size, schedule)
    /\ added = <<>>
    /\ WebIdle
    /\ UnityIdle /\ ConfigIdle /\ ServoIdle

NextTrainer ==
    \/ TrainEpisodeBegin
    \/ TrainSelectAction
    \/ TrainEnvStep
    \/ TrainAddExperience
    \/ TrainBatch
    \/ TrainUpdateTarget
    \/ TrainEpisodeEnd
    \/ TrainReturn

SpecTrainer == InitTrainer /\ [][NextTrainer]_vars

\* one call of train_reinforcement, for 1 or NEpisodes episodes with
\* batch_size = 1 and epsilon decaying from 1.0 to 0.1 over two episodes
InitTrainerLive ==
    /\ SimInit(TrainerEnv)
    /\ AgentInit(<<0, 2>>, 1)
    /\ \E n_episodes \in {1, NEpisodes} :
           TrainReinforcement(n_episodes, 1, <<Dbl_1_0, Dbl_0_1, 2>>)
    /\ added = <<>>
    /\ WebIdle
    /\ UnityIdle /\ ConfigIdle /\ ServoIdle

\* train_reinforcement runs on one thread that nothing suspends: while a
\* statement of the call is left to execute, one is executed
SpecTrainerLive ==
    InitTrainerLive /\ [][NextTrainer]_vars /\ WF_vars(NextTrainer)

(***************************************************************************)
(* The web application: POST /train requests served on request threads,    *)
(* training_worker on a background thread per accepted request, a client   *)
(* polling /training/status, and POST /simulate with simulation_worker     *)
(* (webapp/app.py)                                                         *)
(***************************************************************************)
\* faulty variant: the dictionary hands out the list the training loop is
\* still appending to
StatusRewards_Accumulator(published, episode_rewards) == episode_rewards

\* current_training['rewards'] as a reader finds it: the list stored under
\* the key; the episode_rewards of a running train_reinforcement call is a
\* local of that call
StatusRewards(published, episode_rewards) == published

\* POST /train: the form is read and "if is_training:" is evaluated; the
\* request is turned away when the flag is set
TrainPost(r, use_rl) ==
    /\ train_request[r].pc = "none"
    /\ train_request' =
           [train_request EXCEPT
              ![r] = [pc |-> IF is_training THEN "rejected" ELSE "checked",
                      use_rl |-> use_rl]]
    /\ UNCHANGED <<simVars, agentVars, trainerVars, added, otherVars,
                   current_training, is_training, worker_pc,
                   observer, simulationVars>>

\* the request found the flag clear: is_training = True and
\* Thread(target=training_worker).start()
TrainStartThread(r) ==
    /\ train_request[r].pc = "checked"
    /\ is_training' = TRUE
    /\ worker_pc' = [worker_pc EXCEPT ![r] = "start"]
    /\ train_request' = [train_request EXCEPT ![r].pc = "started"]
    /\ UNCHANGED <<simVars, agentVars, trainerVars, added, otherVars,
                   current_training, observer, simulationVars>>

\* training_worker: the trainer is created if needed and
\* current_training = {'status': 'preparing_data', ..., 'rewards': []}
TrainingWorkerStart(r) ==
    /\ worker_pc[r] = "start"
    /\ current_training' = [status |-> "preparing_data", rewards |-> <<>>]
    /\ worker_pc' = [worker_pc EXCEPT ![r] = "prepare"]
    /\ UNCHANGED <<simVars, agentVars, trainerVars, added, otherVars,
                   is_training, observer, train_request,
                   simulationVars>>

\* prepare_data, train_behavioral_cloning, and evaluate_model with
\* save_model, each followed by the next value of
\* current_training['status']; without train_rl the last one is 'completed'
TrainingWorkerSupervised(r) ==
    /\ \/ /\ worker_pc[r] = "prepare"
          /\ current_training' =
                 [current_training EXCEPT !.status = "training_supervised"]
          /\ worker_pc' = [worker_pc EXCEPT ![r] = "fit"]
       \/ /\ worker_pc[r] = "fit"
          /\ current_training' =
                 [current_training EXCEPT !.status = "evaluating"]
          /\ worker_pc' = [worker_pc EXCEPT ![r] = "evaluate"]
       \/ /\ worker_pc[r] = "evaluate"
          /\ current_training' =
                 [current_training EXCEPT
                    !.status = IF train_request[r].use_rl
                               THEN "training_rl" ELSE "completed"]
          /\ worker_pc' =
                 [worker_pc EXCEPT
                    ![r] = IF train_request[r].use_rl
                           THEN "rl" ELSE "finally"]
    /\ UNCHANGED <<simVars, agentVars, trainerVars, added, otherVars,
                   is_training, observer, train_request,
                   simulationVars>>

\* the statements of trainer.train_reinforcement(sim, n_episodes, batch_size)
TrainingWorkerRL(r) ==
    /\ worker_pc[r] = "rl"
    /\ NextTrainer

\* rewards = trainer.train_reinforcement(...) has returned:
\* current_training['rewards'] = rewards
TrainingWorkerPublish(r) ==
    /\ worker_pc[r] = "rl"
    /\ train_frame.pc = "return"
    /\ current_training' =
           [current_training EXCEPT !.rewards = train_frame.episode_rewards]
    /\ worker_pc' = [worker_pc EXCEPT ![r] = "save"]
    /\ UNCHANGED <<simVars, agentVars, trainerVars, added, otherVars,
                   is_training, observer, train_request,
                   simulationVars>>

\* trainer.save_model(rl_model_path); current_training['status'] = 'completed'
TrainingWorkerComplete(r) ==
    /\ worker_pc[r] = "save"
    /\ current_training' = [current_training EXCEPT !.status = "completed"]
    /\ worker_pc' = [worker_pc EXCEPT ![r] = "finally"]
    /\ UNCHANGED <<simVars, agentVars, trainerVars, added, otherVars,
                   is_training, observer, train_request,
                   simulationVars>>

\* faulty variant: try/except without the finally clause
AfterHandler_NoFinally == "done"

\* where a worker continues when its except clause is left, normally or by
\* an exception of its own: the finally clause
AfterHandler == "finally"

\* except Exception: a statement inside the try has raised;
\* current_training['status'] = 'error' raises a TypeError itself while
\* current_training is None
TrainingWorkerError(r) ==
    /\ worker_pc[r] \in {"start", "prepare", "fit", "evaluate", "rl", "save"}
    /\ current_training' =
           IF current_training.status = "None" THEN current_training
           ELSE [current_training EXCEPT !.status = "error"]
    /\ worker_pc' = [worker_pc EXCEPT ![r] = AfterHandler]
    /\ UNCHANGED <<simVars, agentVars, trainerVars, added, otherVars,
                   is_training, observer, train_request,
                   simulationVars>>

\* finally: is_training = False
TrainingWorkerFinally(r) ==
    /\ worker_pc[r] = "finally"
    /\ is_training' = FALSE
    /\ worker_pc' = [worker_pc EXCEPT ![r] = "done"]
    /\ UNCHANGED <<simVars, agentVars, trainerVars, added, otherVars,
                   current_training, observer, train_request,
                   simulationVars>>

\* the statements of the thread running training_worker for a request
\* without train_rl
TrainingWorker(r) ==
    \/ TrainingWorkerStart(r)
    \/ TrainingWorkerSupervised(r)
    \/ TrainingWorkerError(r)
    \/ TrainingWorkerFinally(r)

\* GET /training/status: {'status': 'not_started'} when current_training is
\* None; else jsonify(current_training) starts to read the dictionary, the
\* entry 'status' first
TrainingStatusBegin ==
    /\ observer.pc = "idle"
    /\ observer' =
           IF current_training.status = "None"
           THEN [pc |-> "idle", status |-> "not_started", rewards |-> <<>>]
           ELSE [pc |-> "rewards", status |-> current_training.status,
                 rewards |-> <<>>]
    /\ UNCHANGED <<simVars, agentVars, trainerVars, added, otherVars,
                   current_training, is_training, worker_pc,
                   train_request, simulationVars>>

\* jsonify(current_training) reads the entry 'rewards' and the response is
\* sent
TrainingStatusEnd ==
    /\ observer.pc = "rewards"
    /\ observer' =
           [observer EXCEPT
              !.pc = "idle",
              !.rewards = StatusRewards(current_training.rewards,
                                        train_frame.episode_rewards)]
    /\ UNCHANGED <<simVars, agentVars, trainerVars, added, otherVars,
                   current_training, is_training, worker_pc,
                   train_request, simulationVars>>

\* POST /simulate for num_episodes episodes: "if is_simulation_running:" is
\* evaluated; the request is turned away when the flag is set
SimulatePost(num_episodes) ==
    /\ simulate_request = "none"
    /\ simulate_request' =
           IF is_simulation_running THEN "rejected" ELSE "checked"
    /\ simulation_frame' = [simulation_frame EXCEPT
                              !.num_episodes = num_episodes]
    /\ UNCHANGED <<simVars, agentVars, trainerVars, added, otherVars,
                   trainingVars, is_simulation_running,
                   current_simulation>>

\* is_simulation_running = True and Thread(target=simulation_worker).start()
SimulateStartThread ==
    /\ simulate_request = "checked"
    /\ is_simulation_running' = TRUE
    /\ simulate_request' = "started"
    /\ simulation_frame' = [simulation_frame EXCEPT !.pc = "load"]
    /\ UNCHANGED <<simVars, agentVars, trainerVars, added, otherVars,
                   trainingVars, current_simulation>>

\* simulation_worker: trainer.load_model(model_path, INPUT_SHAPE) either
\* succeeds, and current_simulation = {'status': 'running', ...} follows, or
\* raises: current_simulation = {'status': 'error', ...},
\* is_simulation_running = False and return, which passes through finally
SimulationWorkerLoad ==
    /\ simulation_frame.pc = "load"
    /\ \/ /\ current_simulation' = "running"
          /\ simulation_frame' =
                 [simulation_frame EXCEPT !.pc = "for", !.episode = 0]
          /\ UNCHANGED is_simulation_running
       \/ /\ current_simulation' = "error"
          /\ is_simulation_running' = FALSE
          /\ simulation_frame' = [simulation_frame EXCEPT !.pc = "finally"]
    /\ UNCHANGED <<simVars, agentVars, trainerVars, added, otherVars,
                   trainingVars, simulate_request>>

\* for episode in range(num_episodes): sim.reset(), done = False, steps = 0;
\* after the last episode current_simulation['status'] = 'completed' and the
\* metrics, where np.max of no rewards raises a ValueError that the except
\* clause turns into the status 'error'
SimulationWorkerEpisode ==
    /\ simulation_frame.pc = "for"
    /\ IF simulation_frame.episode < simulation_frame.num_episodes
       THEN /\ simulation_frame' =
                   [simulation_frame EXCEPT
                      !.pc = "while", !.episode = @ + 1,
                      !.steps = 0, !.done = FALSE]
            /\ UNCHANGED current_simulation
       ELSE /\ simulation_frame' =
                   [simulation_frame EXCEPT
                      !.pc = IF simulation_frame.num_episodes = 0
                             THEN AfterHandler ELSE "finally"]
            /\ current_simulation' =
                   IF simulation_frame.num_episodes = 0
                   THEN "error" ELSE "completed"
    /\ UNCHANGED <<simVars, agentVars, trainerVars, added, otherVars,
                   trainingVars, is_simulation_running,
                   simulate_request>>

\* while not done and steps < 300: the model's prediction, sim.step(action)
\* with either value of done, steps += 1; the episode's result is appended
\* when the loop is left
SimulationWorkerStep ==
    /\ simulation_frame.pc = "while"
    /\ IF ~simulation_frame.done /\ simulation_frame.steps < SimulationSteps
       THEN \E done \in BOOLEAN :
              simulation_frame' =
                  [simulation_frame EXCEPT !.done = done, !.steps = @ + 1]
       ELSE simulation_frame' = [simulation_frame EXCEPT !.pc = "for"]
    /\ UNCHANGED <<simVars, agentVars, trainerVars, added, otherVars,
                   trainingVars, is_simulation_running,
                   current_simulation, simulate_request>>

\* except Exception: a statement inside the try has raised;
\* current_simulation['status'] = 'error' raises a TypeError itself while
\* current_simulation is None
SimulationWorkerError ==
    /\ simulation_frame.pc \in {"load", "for", "while"}
    /\ current_simulation' =
           IF current_simulation = "None" THEN "None" ELSE "error"
    /\ simulation_frame' = [simulation_frame EXCEPT !.pc = AfterHandler]
    /\ UNCHANGED <<simVars, agentVars, trainerVars, added, otherVars,
                   trainingVars, is_simulation_running,
                   simulate_request>>

\* finally: is_simulation_running = False
SimulationWorkerFinally ==
    /\ simulation_frame.pc = "finally"
    /\ is_simulation_running' = FALSE
    /\ simulation_frame' = [simulation_frame EXCEPT !.pc = "done"]
    /\ UNCHANGED <<simVars, agentVars, trainerVars, added, otherVars,
                   trainingVars, current_simulation,
                   simulate_request>>

\* the statements of the thread running simulation_worker
SimulationWorker ==
    \/ SimulationWorkerLoad
    \/ SimulationWorkerEpisode
    \/ SimulationWorkerStep
    \/ SimulationWorkerError
    \/ SimulationWorkerFinally

\* one request with train_rl on, for 1 or NEpisodes episodes, and a client
\* polling the status
InitWebApp == InitTrainerLive

NextWebApp ==
    \/ TrainPost(1, TRUE)
    \/ TrainStartThread(1)
    \/ TrainingWorkerStart(1)
    \/ TrainingWorkerSupervised(1)
    \/ TrainingWorkerRL(1)
    \/ TrainingWorkerPublish(1)
    \/ TrainingWorkerComplete(1)
    \/ TrainingWorkerError(1)
    \/ TrainingWorkerFinally(1)
    \/ TrainingStatusBegin
    \/ TrainingStatusEnd

SpecWebApp == InitWebApp /\ [][NextWebApp]_vars

(***************************************************************************)
(* The web application under concurrent POST /train requests without       *)
(* train_rl: the development server that app.run() starts serves every     *)
(* request on a thread of its own                                          *)
(***************************************************************************)
\* every component as it is constructed or imported, nothing requested yet
InitIdle ==
    /\ SimInit(TrainerEnv)
    /\ AgentInit(<<0, 2>>, 1)
    /\ TrainerIdle
    /\ added = <<>>
    /\ WebIdle
    /\ UnityIdle /\ ConfigIdle /\ ServoIdle

NextWebRace ==
    \/ \E r \in Requests : TrainPost(r, FALSE)
    \/ \E r \in Requests : TrainStartThread(r)
    \/ \E r \in Requests : TrainingWorkerStart(r)
    \/ \E r \in Requests : TrainingWorkerSupervised(r)
    \/ \E r \in Requests : TrainingWorkerError(r)
    \/ \E r \in Requests : TrainingWorkerFinally(r)
    \/ TrainingStatusBegin
    \/ TrainingStatusEnd

SpecWebRace == InitIdle /\ [][NextWebRace]_vars

(***************************************************************************)
(* The web application with one training request without train_rl and one  *)
(* simulation request: a worker thread that has been started keeps being   *)
(* scheduled, and every call it makes returns or raises                    *)
(***************************************************************************)
NextWebLive ==
    \/ TrainPost(1, FALSE)
    \/ TrainStartThread(1)
    \/ TrainingWorkerStart(1)
    \/ TrainingWorkerSupervised(1)
    \/ TrainingWorkerError(1)
    \/ TrainingWorkerFinally(1)
    \/ \E num_episodes \in {0, 1, 2} : SimulatePost(num_episodes)
    \/ SimulateStartThread
    \/ SimulationWorkerLoad
    \/ SimulationWorkerEpisode
    \/ SimulationWorkerStep
    \/ SimulationWorkerError
    \/ SimulationWorkerFinally

SpecWebLive ==
    /\ InitIdle /\ [][NextWebLive]_vars
    /\ WF_vars(TrainingWorker(1))
    /\ WF_vars(SimulationWorker)

(***************************************************************************)
(* UnityIntegration: client-handler threads in _process_data, and a thread  *)
(* that saves and clears the recording (playmeow/unity_integration.py)     *)
(***************************************************************************)
required_fields == {"catX", "catZ", "laserX", "laserZ"}

\* the JSON values a client sends: objects with all or some of the required
\* fields (the cat at one of two places), and a number
MessageDraws ==
    { [kind |-> "object", fields |-> required_fields, cat |-> <<1, 2>>],
      [kind |-> "object", fields |-> required_fields, cat |-> <<3, 4>>],
      [kind |-> "object", fields |-> required_fields \ {"laserZ"},
       cat |-> <<1, 2>>],
      [kind |-> "object", fields |-> {"catX"}, cat |-> <<3, 4>>],
      [kind |-> "object", fields |-> {}, cat |-> <<1, 2>>],
      [kind |-> "number", fields |-> {}, cat |-> <<0, 0>>] }

\* "if field not in data" over required_fields: a TypeError for a value that
\* is no container, the error response for a missing field, else "ok"
Validation(data) ==
    IF data.kind = "number" THEN "TypeError"
    ELSE IF required_fields \subseteq data.fields THEN "ok"
    ELSE "missing"

\* faulty variant: only the except clauses for KeyError and ValueError
Caught_KeyValueOnly(exception) == exception \in {"KeyError", "ValueError"}

\* the except clauses of _process_data end with "except Exception"
Caught(exception) == TRUE

\* "with self.buffer_lock:" is entered when no thread holds the lock
CanAcquire(lock) == lock = "free"

\* recv and _process_data up to "Store positions": the message is turned
\* away with an error response, or raises out of _process_data and ends the
\* connection, or its positions are stored
ProcessDataValidate(h) ==
    /\ client_handler[h].pc = "recv"
    /\ \E data \in MessageDraws :
         LET outcome == Validation(data)
         IN  \/ /\ outcome = "missing" \/ (outcome = "TypeError" /\ Caught(outcome))
                /\ client_handler' =
                       [client_handler EXCEPT
                          ![h] = [pc |-> "recv", data |-> data,
                                  response |-> "error"]]
                /\ UNCHANGED <<last_cat_pos, last_laser_pos>>
             \/ /\ outcome = "TypeError" /\ ~Caught(outcome)
                /\ client_handler' =
                       [client_handler EXCEPT
                          ![h] = [pc |-> "closed", data |-> data,
                                  response |-> "None"]]
                /\ UNCHANGED <<last_cat_pos, last_laser_pos>>
             \/ /\ outcome = "ok"
                /\ record_log.appended < MaxRecords
                /\ last_cat_pos' = data.cat
                /\ last_laser_pos' = <<0, 0>>
                /\ client_handler' =
                       [client_handler EXCEPT
                          ![h] = [pc |-> "append", data |-> data,
                                  response |-> "None"]]
    /\ UNCHANGED <<data_buffer, buffer_lock, last_prediction_time, recorder,
                   record_log,
                   simVars, agentVars, trainerVars, added, webVars,
                   configVars, servoVars>>

\* with self.buffer_lock: self.data_buffer.append({...})
ProcessDataAppend(h) ==
    /\ client_handler[h].pc = "append"
    /\ CanAcquire(buffer_lock)
    /\ record_log.appended < MaxRecords
    /\ data_buffer' = Append(data_buffer, record_log.appended + 1)
    /\ record_log' = [record_log EXCEPT !.appended = @ + 1]
    /\ client_handler' = [client_handler EXCEPT ![h].pc = "predict"]
    /\ UNCHANGED <<buffer_lock, last_cat_pos, last_laser_pos,
                   last_prediction_time, recorder,
                   simVars, agentVars, trainerVars, added, webVars,
                   configVars, servoVars>>

\* current_time = time.time(); a prediction is made when 0.1 s have passed
\* since the last one, and succeeds or raises; else the message is
\* acknowledged; the response is sent
ProcessDataPredict(h) ==
    /\ client_handler[h].pc = "predict"
    /\ \E current_time \in last_prediction_time..MaxTime :
         IF current_time - last_prediction_time >= 1
         THEN /\ last_prediction_time' = current_time
              /\ \E response \in {"success", "error"} :
                    client_handler' =
                        [client_handler EXCEPT
                           ![h].pc = "recv", ![h].response = response]
         ELSE /\ UNCHANGED last_prediction_time
              /\ client_handler' =
                     [client_handler EXCEPT
                        ![h].pc = "recv", ![h].response = "received"]
    /\ UNCHANGED <<data_buffer, buffer_lock, last_cat_pos, last_laser_pos,
                   recorder, record_log,
                   simVars, agentVars, trainerVars, added, webVars,
                   configVars, servoVars>>

\* save_recorded_data: the lock is taken; with nothing to save the call
\* returns False
SaveRecordedDataBegin ==
    /\ recorder.pc = "idle"
    /\ CanAcquire(buffer_lock)
    /\ IF data_buffer = <<>>
       THEN /\ recorder' = [pc |-> "idle", written |-> {}, op |-> "save",
                            result |-> "False", num_records |-> 0]
            /\ UNCHANGED buffer_lock
       ELSE /\ recorder' = [pc |-> "write", written |-> {}, op |-> "save",
                            result |-> "None", num_records |-> 0]
            /\ buffer_lock' = "save"
    /\ UNCHANGED <<data_buffer, last_cat_pos, last_laser_pos,
                   last_prediction_time, client_handler, record_log,
                   simVars, agentVars, trainerVars, added, webVars,
                   configVars, servoVars>>

\* the directory is made, the file opened and every row handed to
\* writer.writerow: a row whose write raises is logged and passed over; an
\* IOError of mkdir, open or close makes the call return False
SaveRecordedDataWrite ==
    /\ recorder.pc = "write"
    /\ \/ /\ recorder' = [recorder EXCEPT !.pc = "idle", !.result = "False"]
          /\ buffer_lock' = "free"
       \/ /\ \E row_error \in SUBSET {data_buffer[i] : i \in DOMAIN data_buffer} :
                recorder' =
                    [recorder EXCEPT
                       !.pc = "clear",
                       !.written = {data_buffer[i] : i \in DOMAIN data_buffer}
                                      \ row_error]
          /\ UNCHANGED buffer_lock
    /\ UNCHANGED <<data_buffer, last_cat_pos, last_laser_pos,
                   last_prediction_time, client_handler, record_log,
                   simVars, agentVars, trainerVars, added, webVars,
                   configVars, servoVars>>

\* self.data_buffer = [] and return True; the lock is released
SaveRecordedDataClear ==
    /\ recorder.pc = "clear"
    /\ data_buffer' = <<>>
    /\ record_log' =
           [record_log EXCEPT
              !.saved = [n \in 1..MaxRecords |->
                           IF n \in recorder.written THEN @[n] + 1 ELSE @[n]]]
    /\ recorder' = [recorder EXCEPT !.pc = "idle", !.result = "True"]
    /\ buffer_lock' = "free"
    /\ UNCHANGED <<last_cat_pos, last_laser_pos, last_prediction_time,
                   client_handler,
                   simVars, agentVars, trainerVars, added, webVars,
                   configVars, servoVars>>

\* clear_data_buffer: under the lock, the records are counted and dropped
ClearDataBuffer ==
    /\ recorder.pc = "idle"
    /\ CanAcquire(buffer_lock)
    /\ data_buffer' = <<>>
    /\ record_log' =
           [record_log EXCEPT
              !.cleared = [n \in 1..MaxRecords |->
                             @[n] + Cardinality({i \in DOMAIN data_buffer :
                                                   data_buffer[i] = n})]]
    /\ recorder' = [pc |-> "idle", written |-> {}, op |-> "clear",
                    result |-> "num_records",
                    num_records |-> Len(data_buffer)]
    /\ UNCHANGED <<buffer_lock, last_cat_pos, last_laser_pos,
                   last_prediction_time, client_handler,
                   simVars, agentVars, trainerVars, added, webVars,
                   configVars, servoVars>>

NextUnity ==
    \/ \E h \in Handlers : ProcessDataValidate(h)
    \/ \E h \in Handlers : ProcessDataAppend(h)
    \/ \E h \in Handlers : ProcessDataPredict(h)
    \/ SaveRecordedDataBegin
    \/ SaveRecordedDataWrite
    \/ SaveRecordedDataClear
    \/ ClearDataBuffer

SpecUnity == InitIdle /\ [][NextUnity]_vars

(***************************************************************************)
(* The configuration module (playmeow/config.py)                           *)
(***************************************************************************)
\* values a caller of update_config hands over
MaxValue == 2

\* the user files read: each a section with one nested dictionary
UserConfigDraws ==
    { [section |-> "webapp", dict |-> [key \in {"port"} |-> 8080]],
      [section |-> "common", dict |-> [key \in {"prediction_rate"} |-> 5]],
      [section |-> "webapp", dict |-> [key \in {"debug"} |-> 1]],
      [section |-> "unity_integration", dict |-> [key \in {"port"} |-> 12345]] }

\* dict.update-like assignment of every key of the second dictionary
Assign(dict, user) ==
    [key \in DOMAIN dict \cup DOMAIN user |->
       IF key \in DOMAIN user THEN user[key] ELSE dict[key]]

\* _DEFAULT_CONFIG.copy(): a new top-level dictionary that refers to the
\* same nested dictionaries, so what the heap holds under their names
CopyOfDefault(heap) == heap

\* _merge_configs(_config, user_config) for a user file with one section: a
\* section that _config has is merged into the dictionary stored under it,
\* key by key; a new section is stored in the top-level dictionary
MergeConfigs(top, heap, user) ==
    IF user.section \in DOMAIN top
    THEN [top |-> top,
          heap |-> [heap EXCEPT ![top[user.section]] = Assign(@, user.dict)]]
    ELSE [top |-> [section \in DOMAIN top \cup {user.section} |->
                     IF section = user.section THEN "user" ELSE top[section]],
          heap |-> [heap EXCEPT !["user"] = user.dict]]

\* load_config(config_path): _config = _DEFAULT_CONFIG.copy(), and the
\* user file merged in when a path is given that exists and parses
LoadConfig(path, user) ==
    LET merged == IF path = "None"
                  THEN [top |-> DefaultTop,
                        heap |-> CopyOfDefault(config_heap)]
                  ELSE MergeConfigs(DefaultTop, CopyOfDefault(config_heap),
                                    user)
    IN  /\ global_config' = [none |-> FALSE, top |-> merged.top]
        /\ config_heap' = merged.heap
        /\ config_ret' = [op |-> "load_config", path |-> path,
                          result |-> "None",
                          config |-> Resolve(merged.top, merged.heap)]

\* get_config(): load_config() first while _config is None
GetConfig ==
    /\ global_config' = [global_config EXCEPT !.none = FALSE]
    /\ config_ret' = [op |-> "get_config", path |-> "None", result |-> "None",
                      config |-> Resolve(global_config.top, config_heap)]
    /\ UNCHANGED config_heap

\* update_config(section, key, value): load_config() first while _config is
\* None; _config[section][key] = value and True for a section that exists,
\* else False
UpdateConfig(section, key, value) ==
    /\ global_config' = [global_config EXCEPT !.none = FALSE]
    /\ IF section \in DOMAIN global_config.top
       THEN /\ config_heap' =
                   [config_heap EXCEPT
                      ![global_config.top[section]] =
                          Assign(@, [k \in {key} |-> value])]
            /\ config_ret' =
                   [op |-> "update_config", path |-> "None",
                    result |-> "True",
                    config |-> Resolve(global_config.top, config_heap')]
       ELSE /\ UNCHANGED config_heap
            /\ config_ret' =
                   [op |-> "update_config", path |-> "None",
                    result |-> "False",
                    config |-> Resolve(global_config.top, config_heap)]

LoadConfigFile ==
    /\ \E user \in UserConfigDraws : LoadConfig("user.json", user)
    /\ UNCHANGED <<simVars, agentVars, trainerVars, added, webVars,
                   unityVars, servoVars>>

LoadConfigDefault ==
    /\ LoadConfig("None", [section |-> "None", dict |-> [key \in {} |-> 0]])
    /\ UNCHANGED <<simVars, agentVars, trainerVars, added, webVars,
                   unityVars, servoVars>>

GetConfigCall ==
    /\ GetConfig
    /\ UNCHANGED <<simVars, agentVars, trainerVars, added, webVars,
                   unityVars, servoVars>>

UpdateConfigCall ==
    /\ \E section \in {"common", "webapp", "missing"},
          key \in {"port", "prediction_rate"},
          value \in 1..MaxValue :
            UpdateConfig(section, key, value)
    /\ UNCHANGED <<simVars, agentVars, trainerVars, added, webVars,
                   unityVars, servoVars>>

NextConfig ==
    \/ LoadConfigFile
    \/ LoadConfigDefault
    \/ GetConfigCall
    \/ UpdateConfigCall

SpecConfig == InitIdle /\ [][NextConfig]_vars

(***************************************************************************)
(* The FS90R servo driver (ESP32/servo_control.py)                         *)
(***************************************************************************)
FREQ == 50
NEUTRAL_PULSE == 1500
MAX_PULSE == 2000
PULSE_RANGE == MAX_PULSE - NEUTRAL_PULSE
PERIOD == 1000000 \div FREQ
MAX_DUTY == 1023

\* the speeds handed to set_speed range over -SpeedRange..SpeedRange
SpeedRange == 150

\* faulty variant: the speed is used as it comes
ClampSpeed_None(speed_percent) == speed_percent

\* spd = max(-100, min(100, speed_percent))
ClampSpeed(speed_percent) == Max2(-100, Min2(100, speed_percent))

\* pulse = NEUTRAL_PULSE + (PULSE_RANGE * spd // 100), in microseconds
Pulse(spd) == NEUTRAL_PULSE + ((PULSE_RANGE * spd) \div 100)

\* duty = int(pulse * MAX_DUTY // PERIOD)
Duty(pulse) == (pulse * MAX_DUTY) \div PERIOD

\* FS90R.set_speed(speed_percent), called as op
SetSpeed(op, speed_percent) ==
    LET pulse == Pulse(ClampSpeed(speed_percent))
    IN  /\ pwm_duty' = Duty(pulse)
        /\ servo_ret' = [op |-> op, speed_percent |-> speed_percent,
                         pulse |-> pulse]

SetSpeedCall ==
    /\ \E speed_percent \in (-SpeedRange)..SpeedRange :
         SetSpeed("set_speed", speed_percent)
    /\ UNCHANGED <<simVars, agentVars, trainerVars, added, webVars,
                   unityVars, configVars>>

\* FS90R.stop(): self.set_speed(0)
Stop ==
    /\ SetSpeed("stop", 0)
    /\ UNCHANGED <<simVars, agentVars, trainerVars, added, webVars,
                   unityVars, configVars>>

NextServo == SetSpeedCall \/ Stop

SpecServo == InitIdle /\ [][NextServo]_vars

(***************************************************************************)
(* Properties of the environment                                           *)
(***************************************************************************)
InBounds(pos) ==
    /\ bounds[1] <= pos[1] /\ pos[1] <= bounds[2]
    /\ bounds[3] <= pos[2] /\ pos[2] <= bounds[4]

\* C1: after reset() and after every later step(), whatever the actions and
\* the cat's random behaviour, cat_pos and laser_pos lie inside
\* [min_x, max_x] x [min_z, max_z].
C1_PositionsInBounds ==
    phase # "Idle" => InBounds(cat_pos) /\ InBounds(laser_pos)

\* a step that bounced the cat off the upper x wall and clipped the laser at
\* the lower z wall
C1_Witness ==
    /\ phase = "Active" /\ sim_ret.op = "step"
    /\ cat_pos[1] = bounds[2] - 1 /\ cat_velocity[1] < 0
    /\ laser_pos[2] = bounds[3]

\* C2: cat_interest_level is in [0, 1] in every reachable state, and is 1.0
\* after reset.
C2_InterestInUnitInterval ==
    /\ ~DblLess(cat_interest_level, Dbl_0_0)
    /\ ~DblLess(Dbl_1_0, cat_interest_level)
    /\ sim_ret.op = "reset" => cat_interest_level = Dbl_1_0

\* the interest level floored at 0.0 by a run of disengaged steps
C2_Witness ==
    /\ sim_ret.op = "step" /\ ~engagement
    /\ cat_interest_level = Dbl_0_0
    /\ time_since_engagement > 100

\* C4: a step() on an environment that was never reset, or whose episode has
\* returned done = True, fails and leaves the step counter, the positions
\* and the interest level as they were.
C4_StepOutsideEpisodeFails ==
    [][(phase \in {"Idle", "Done"} /\ sim_ret'.op = "step")
         => /\ episode_steps' = episode_steps
            /\ cat_pos' = cat_pos
            /\ laser_pos' = laser_pos
            /\ cat_interest_level' = cat_interest_level]_vars

\* the steps of an episode (since the last reset) in which the cat has never
\* engaged: time_since_engagement then counts every step
NeverEngagedStep ==
    /\ phase # "Idle" /\ sim_ret.op = "step"
    /\ max_episode_steps = 300
    /\ time_since_engagement = episode_steps

C11_HundredDisengagedStepsToZero ==
    (sim_ret.op = "step" /\ episode_steps = 100 /\ time_since_engagement = 100)
      => /\ cat_interest_level = Dbl_0_0
         /\ sim_ret.info.session_abandoned

\* the 100th of 100 disengaged steps after a reset
C11_Witness ==
    /\ phase # "Idle" /\ sim_ret.op = "step"
    /\ episode_steps = 100 /\ time_since_engagement = 100
    /\ sim_ret.info.cat_interest_level = Dbl_0_0
    /\ sim_ret.info.session_abandoned

\* C12: each step moves the laser, on each axis, to
\* clamp(laser_pos + 0.1 * action, lower bound, upper bound); a laser in the
\* upper corner that is pushed further in +x and +z stays exactly there.
C12_LaserMoveClamped ==
    [][sim_ret'.op = "step"
         => /\ \A i \in {1, 2} :
                 LET target == laser_pos[i] + sim_ret'.action[i]
                     lower == bounds[2 * i - 1]
                     upper == bounds[2 * i]
                 IN  laser_pos'[i] = IF target < lower THEN lower
                                     ELSE IF target > upper THEN upper
                                     ELSE target
            /\ (/\ laser_pos = <<bounds[2], bounds[4]>>
                /\ sim_ret'.action[1] >= 0 /\ sim_ret'.action[2] >= 0)
                 => laser_pos' = laser_pos]_vars

\* the laser held in the upper corner by a push in +x and +z
C12_Witness ==
    /\ phase = "Active" /\ sim_ret.op = "step"
    /\ sim_ret.action = <<10, 7>>
    /\ laser_pos = <<bounds[2], bounds[4]>>
    /\ episode_steps >= 2

\* C17: reset(), called in any state (before the first episode, in the
\* middle of one or after done), leaves the cat's velocity zero, engagement
\* false, time_since_engagement, play_duration and episode_steps 0 and the
\* interest level 1.0, with the cat and the laser inside the bounds; bounds,
\* cat_speed_range, engagement_threshold and max_episode_steps are unchanged.
C17_ResetStartsFreshEpisode ==
    [][sim_ret'.op = "reset"
         => /\ cat_velocity' = <<0, 0>>
            /\ ~engagement'
            /\ time_since_engagement' = 0
            /\ play_duration' = 0
            /\ episode_steps' = 0
            /\ cat_interest_level' = Dbl_1_0
            /\ InBounds(cat_pos') /\ InBounds(laser_pos')
            /\ UNCHANGED <<bounds, cat_speed_range, engagement_threshold,
                           max_episode_steps>>]_vars

\* the state a reset leaves, its laser clipped at a wall next to the cat
C17_Witness ==
    /\ sim_ret.op = "reset" /\ phase = "Active"
    /\ episode_steps = 0 /\ play_duration = 0
    /\ cat_pos # laser_pos
    /\ laser_pos[1] = bounds[2]

\* C19: the done flag step returns is true if and only if session_complete
\* or session_abandoned holds for that step or episode_steps has reached
\* max_episode_steps; so no step at or past max_episode_steps returns
\* done = False.
C19_DoneIffCompleteAbandonedOrCap ==
    sim_ret.op = "step" =>
        (sim_ret.done <=> \/ sim_ret.info.session_complete
                          \/ sim_ret.info.session_abandoned
                          \/ episode_steps >= max_episode_steps)

\* the step that reaches the cap of an episode neither complete nor abandoned
C19_Witness ==
    /\ phase = "Done" /\ sim_ret.op = "step" /\ sim_ret.done
    /\ ~sim_ret.info.session_complete /\ ~sim_ret.info.session_abandoned
    /\ episode_steps = max_episode_steps

\* C20: a step is engaged if and only if the distance between cat and laser,
\* after the laser move and the cat update of that step, is below
\* engagement_threshold and the interest level carried into the step is
\* above 0.3; an engaged step zeroes time_since_engagement and raises the
\* interest by 0.05 (capped at 1), a disengaged step adds 1 to
\* time_since_engagement and lowers the interest by 0.01 (floored at 0).
C20_EngagementAndInterestUpdate ==
    [][sim_ret'.op = "step"
         => /\ engagement'
                 <=> /\ Norm2(VSub(cat_pos', laser_pos'))
                          < engagement_threshold * engagement_threshold
                     /\ DblLess(Dbl_0_3, cat_interest_level)
            /\ engagement'
                 => /\ time_since_engagement' = 0
                    /\ cat_interest_level'
                         = DblMin(Dbl_1_0, DblAdd(cat_interest_level, Dbl_0_05))
            /\ ~engagement'
                 => /\ time_since_engagement' = time_since_engagement + 1
                    /\ cat_interest_level'
                         = DblMax(Dbl_0_0, DblSub(cat_interest_level, Dbl_0_01))]_vars

\* an engaged second step of an episode, its interest held at the cap
C20_Witness ==
    /\ phase = "Active" /\ sim_ret.op = "step"
    /\ engagement /\ time_since_engagement = 0
    /\ episode_steps = 2
    /\ cat_interest_level = Dbl_1_0
    /\ cat_pos # laser_pos

\* C21: in each step session_complete is true iff play_duration, after this
\* step's increment, is >= 100 and the interest level, after this step's
\* update, is > 0.6, and session_abandoned is true iff that updated interest
\* level is < 0.2; both are reported in the info map of the same step.
C21_SessionFlags ==
    [][sim_ret'.op = "step"
         => /\ play_duration' = play_duration + 1
            /\ sim_ret'.info.cat_interest_level = cat_interest_level'
            /\ sim_ret'.info.session_complete
                 <=> /\ play_duration' >= 100
                     /\ DblLess(Dbl_0_6, cat_interest_level')
            /\ sim_ret'.info.session_abandoned
                 <=> DblLess(cat_interest_level', Dbl_0_2)]_vars

\* the hundredth step of an episode engaged throughout reports the session
\* complete
C21_Witness ==
    /\ phase = "Done" /\ sim_ret.op = "step"
    /\ play_duration = 100 /\ episode_steps = 100
    /\ engagement /\ cat_interest_level = Dbl_1_0
    /\ sim_ret.info.session_complete /\ ~sim_ret.info.session_abandoned

\* C29: in every reachable state of the environment episode_steps equals
\* play_duration, time_since_engagement is at most episode_steps, and
\* whenever engagement is true time_since_engagement is 0.
C29_CountersAgree ==
    /\ episode_steps = play_duration
    /\ time_since_engagement <= episode_steps
    /\ engagement => time_since_engagement = 0

\* the engaged first step of an episode in the default room
C29_Witness ==
    /\ phase = "Active" /\ sim_ret.op = "step"
    /\ engagement /\ time_since_engagement = 0
    /\ episode_steps = 1 /\ play_duration = 1
    /\ cat_speed_range[2] # 0

\* the part of the reward of the last step that comes from the session
\* flags: the reward less its engagement and distance terms, the boundary
\* and corner penalties added back
SessionTerm ==
    sim_ret.reward
    - (IF sim_ret.info.engagement THEN 1000 ELSE -2000)
    - (IF /\ 20 * 20 <= sim_ret.info.distance2_to_cat
          /\ sim_ret.info.distance2_to_cat <= 100 * 100 THEN 100 ELSE 0)
    + BoundaryPenalty(cat_pos)
    + CornerPenalty(cat_pos)

\* C30: session_complete and session_abandoned are never both true in the
\* same step, so the completion bonus (+0.4) and the abandonment penalty
\* (-0.3) are never both applied to one step's reward.
C30_CompleteAndAbandonedExclusive ==
    sim_ret.op = "step" =>
        /\ ~(sim_ret.info.session_complete /\ sim_ret.info.session_abandoned)
        /\ SessionTerm = (IF sim_ret.info.session_complete THEN 4000
                          ELSE IF sim_ret.info.session_abandoned THEN -3000
                          ELSE 0)

\* a step past the hundredth of an episode never engaged: long enough to be
\* complete, yet abandoned, and charged the abandonment penalty only
C30_Witness ==
    /\ sim_ret.op = "step" /\ play_duration > 100
    /\ sim_ret.info.session_abandoned /\ ~sim_ret.info.session_complete
    /\ SessionTerm = -3000

\* calculate_reward on the values the last step reported
RewardOfInfo ==
    CalculateReward(sim_ret.info.engagement, sim_ret.info.distance2_to_cat,
                    FALSE, sim_ret.info.session_complete,
                    sim_ret.info.session_abandoned)

\* the squared distance from the cat to corner i
CornerDistance2(cat, i) == Norm2(VSub(cat, Corners[i]))

\* C22: whenever the cat is at least 0.25 from every wall and at least 0.35
\* from every corner after a step, the reward returned by step equals
\* calculate_reward(engagement, distance_to_cat, False, session_complete,
\* session_abandoned) on that step's values; in every step the two agree
\* on the engagement, completion and proximity terms, the reward of step
\* being that of calculate_reward less the wall and corner penalties.
C22_StepRewardMatchesCalculateReward ==
    sim_ret.op = "step" =>
        /\ (/\ ~NearBoundary(cat_pos)
            /\ \A i \in 1..4 :
                  CornerDistance2(cat_pos, i) >= corner_distance * corner_distance)
              => sim_ret.reward = RewardOfInfo
        /\ sim_ret.reward
             = RewardOfInfo - BoundaryPenalty(cat_pos) - CornerPenalty(cat_pos)

\* a disengaged step that leaves the cat in the open, the laser at
\* the proximity distance
C22_Witness ==
    /\ sim_ret.op = "step" /\ ~engagement
    /\ ~NearBoundary(cat_pos)
    /\ \A i \in 1..4 :
          CornerDistance2(cat_pos, i) >= corner_distance * corner_distance
    /\ sim_ret.reward = -1900

\* 0.1 * (1 - d / 0.35) for the distance d to the nearest corner when that
\* is below 0.35, else 0
NearestCornerPenalty(cat) ==
    LET nearest == CHOOSE i \in 1..4 :
                      \A j \in 1..4 : CornerDistance2(cat, i) <= CornerDistance2(cat, j)
        corner_dist == ISqrt(CornerDistance2(cat, nearest) * 10000)
    IN  IF CornerDistance2(cat, nearest) < corner_distance * corner_distance
        THEN 1000 - (corner_dist * 10) \div corner_distance
        ELSE 0

\* C23 as stated: the corner penalty of a step is applied at most once and
\* is computed from the cat's distance to the nearest of the four corners,
\* for any bounds: the reward is reduced by 0.1 * (1 - d_nearest / 0.35)
\* whenever the nearest corner is closer than 0.35, and by nothing otherwise.
C23_CornerPenaltyFromNearestCorner ==
    sim_ret.op = "step" =>
        RewardOfInfo - BoundaryPenalty(cat_pos) - sim_ret.reward
            = NearestCornerPenalty(cat_pos)

\* C24: when the cat position is integrated, for each axis independently:
\* if pos + velocity would fall below the lower bound the position is set to
\* lower bound + 0.01 and that velocity component becomes +|v|/2; if it
\* would exceed the upper bound the position is set to upper bound - 0.01
\* and the component becomes -|v|/2; an axis that stays in bounds keeps the
\* position pos + velocity and its velocity component.  (sim_ret.velocity
\* is the velocity the step integrated.)
C24_BouncePerAxis ==
    [][sim_ret'.op = "step"
         => LET v == sim_ret'.velocity
            IN \A i \in 1..2 :
                  LET lo == bounds[2 * i - 1]
                      hi == bounds[2 * i]
                      new == cat_pos[i] + v[i]
                  IN  /\ new < lo => /\ cat_pos'[i] = lo + 1
                                     /\ cat_velocity'[i] = Abs(v[i]) \div 2
                      /\ new > hi => /\ cat_pos'[i] = hi - 1
                                     /\ cat_velocity'[i] = -(Abs(v[i]) \div 2)
                      /\ (lo <= new /\ new <= hi)
                           => /\ cat_pos'[i] = new
                              /\ cat_velocity'[i] = v[i]]_vars

\* a step in the default room that bounced the cat off the left wall at
\* a speed of at least 0.02 while its z axis moved freely
C24_Witness ==
    /\ sim_ret.op = "step" /\ cat_speed_range[2] # 0
    /\ cat_pos[1] = bounds[1] + 1 /\ cat_velocity[1] > 0
    /\ cat_pos[2] > bounds[3] + 1 /\ cat_pos[2] < bounds[4] - 1
    /\ cat_velocity[2] # 0

\* C18 as stated: whatever action step() is given, a component that is not
\* finite or far out of range included, the laser and the cat are afterwards
\* at finite positions inside the bounds, the interest level is in [0, 1]
\* and the reward is a finite number.
C18_MalformedActionContained ==
    sim_ret.op = "step" =>
        /\ ~HasNaN(laser_pos) /\ InBounds(laser_pos)
        /\ ~HasNaN(cat_pos) /\ InBounds(cat_pos)
        /\ ~DblLess(cat_interest_level, Dbl_0_0)
        /\ ~DblLess(Dbl_1_0, cat_interest_level)
        /\ ~IsNaN(sim_ret.reward)

(***************************************************************************)
(* Properties of the agent                                                 *)
(***************************************************************************)
\* the last n elements of a sequence
LastN(seq, n) == SubSeq(seq, Len(seq) - n + 1, Len(seq))

\* C3: after any sequence of n add_experience calls on a buffer of capacity
\* C the buffer holds exactly the last min(n, C) inserted experiences in
\* insertion order, and never more than C.
C3_ReplayBufferFifo ==
    /\ Len(replay_buffer) <= replay_buffer_size
    /\ replay_buffer = LastN(added, Min2(Len(added), replay_buffer_size))

\* a full buffer has evicted its oldest entry, which differs from the one
\* that is now its oldest
C3_Witness ==
    /\ agent_ret.op = "add_experience"
    /\ Len(added) > replay_buffer_size
    /\ Len(replay_buffer) = replay_buffer_size
    /\ added[Len(added) - replay_buffer_size] # replay_buffer[1]

\* C5: train_on_batch(batch_size) on a buffer holding fewer than batch_size
\* experiences returns None without raising and leaves the buffer, the
\* online weights and the target weights unchanged.
C5_TooFewExperiencesNoUpdate ==
    [][(agent_ret'.op = "train_on_batch"
          /\ Len(replay_buffer) < agent_ret'.batch_size)
         => /\ agent_ret'.result = "None"
            /\ replay_buffer' = replay_buffer
            /\ base_weights' = base_weights
            /\ target_weights' = target_weights]_vars

\* None returned on a buffer that is not empty but too small
C5_Witness ==
    /\ agent_ret.op = "train_on_batch" /\ agent_ret.result = "None"
    /\ Len(replay_buffer) > 0
    /\ Len(replay_buffer) < agent_ret.batch_size

\* C7: the target weights change only in update_target_model; add_experience,
\* train_on_batch and epsilon_greedy_action leave them as they are.
C7_TargetChangesOnlyInUpdate ==
    [][target_weights' # target_weights
         => agent_ret'.op = "update_target_model"]_vars

\* a gradient step has moved the online weights away from the target's
C7_Witness ==
    /\ agent_ret.op = "train_on_batch" /\ agent_ret.result = "loss"
    /\ base_weights # target_weights

\* C8: update_target_model(tau) sets every target weight to
\* tau * online + (1 - tau) * target (to the nearest value of the weight
\* grid); with tau = 0 the target weights are unchanged and with tau = 1
\* they equal the online weights.
C8_SoftUpdate ==
    [][agent_ret'.op = "update_target_model"
         => /\ DOMAIN target_weights' = DOMAIN base_weights
            /\ \A i \in DOMAIN base_weights :
                   2 * Abs(10 * target_weights'[i]
                           - (agent_ret'.tau * base_weights[i]
                              + (10 - agent_ret'.tau) * target_weights[i])) <= 10
            /\ agent_ret'.tau = 0 => target_weights' = target_weights
            /\ agent_ret'.tau = 10 => target_weights' = base_weights]_vars

\* a half-way update between weights that differ in every component
C8_Witness ==
    /\ agent_ret.op = "update_target_model" /\ agent_ret.tau = 5
    /\ \A i \in DOMAIN base_weights : target_weights[i] # base_weights[i]

\* a train_on_batch call that got past the size test and fitted the model
Trained == agent_ret'.op = "train_on_batch" /\ agent_ret'.result = "loss"

\* C13: for every experience sampled by train_on_batch the bootstrapped
\* target is reward when done, and reward + gamma * (the largest output of
\* the target model for next_state) otherwise; the online model's outputs
\* for next_state play no part.
C13_BootstrapFromTargetModel ==
    [][Trained =>
         \A i \in DOMAIN agent_ret'.indices :
            LET experience == replay_buffer[agent_ret'.indices[i]]
                next_q == QValues(target_weights, experience[4])
                future == IF experience[5] THEN 0
                          ELSE gamma * Max2(next_q[1], next_q[2])
            IN  \E d \in DOMAIN agent_ret'.target_q[i] :
                   100 * agent_ret'.target_q[i][d]
                      = 100 * experience[3] + future]_vars

\* a batch holding an experience that is not done, sampled while the online
\* and the target model disagree on the best output for its next_state
C13_Witness ==
    /\ agent_ret.op = "train_on_batch" /\ agent_ret.result = "loss"
    /\ \E i \in DOMAIN agent_ret.indices :
          LET experience == replay_buffer[agent_ret.indices[i]]
              next_q == QValues(target_weights, experience[4])
          IN  /\ ~experience[5]
              /\ agent_ret.target_q[i][1]
                   = experience[3] + TruncDiv(gamma * Max2(next_q[1], next_q[2]), 100)
              /\ \E weights \in OnlineDraws :
                    LET online_q == QValues(weights, experience[4])
                    IN  Max2(online_q[1], online_q[2]) # Max2(next_q[1], next_q[2])

\* C14 as stated: in the targets train_on_batch builds, only the bootstrapped
\* target of a sampled experience is replaced: all other output dimensions of
\* its target vector are the online model's current prediction for its state.
C14_OtherOutputsKeepPrediction ==
    [][Trained =>
         \A i \in DOMAIN agent_ret'.indices :
            LET experience == replay_buffer[agent_ret'.indices[i]]
                current_q == QValues(base_weights, experience[1])
            IN  \E d \in DOMAIN current_q :
                   \A e \in DOMAIN current_q \ {d} :
                      agent_ret'.target_q[i][e] = current_q[e]]_vars

\* C15: with at least batch_size experiences in the buffer train_on_batch
\* fits the online model once, on exactly batch_size experiences taken from
\* pairwise distinct positions of the buffer, and leaves the buffer as it is.
C15_BatchWithoutReplacement ==
    [][(agent_ret'.op = "train_on_batch"
          /\ Len(replay_buffer) >= agent_ret'.batch_size)
         => /\ agent_ret'.result = "loss"
            /\ DOMAIN agent_ret'.indices = 1..agent_ret'.batch_size
            /\ \A i \in DOMAIN agent_ret'.indices :
                  agent_ret'.indices[i] \in 1..Len(replay_buffer)
            /\ \A i, j \in DOMAIN agent_ret'.indices :
                  i # j => agent_ret'.indices[i] # agent_ret'.indices[j]
            /\ DOMAIN agent_ret'.target_q = DOMAIN agent_ret'.indices
            /\ replay_buffer' = replay_buffer]_vars

\* a batch of two taken from a buffer of two different experiences
C15_Witness ==
    /\ agent_ret.op = "train_on_batch" /\ agent_ret.result = "loss"
    /\ agent_ret.batch_size = 2 /\ Len(agent_ret.indices) = 2
    /\ replay_buffer[1] # replay_buffer[2]

\* C27: epsilon_greedy_action(state, epsilon) keeps no epsilon state and
\* modifies neither the replay buffer nor any model weights; with epsilon = 0
\* it always returns the online model's prediction for state, and with
\* epsilon = 1 it always returns a random unit-length direction and never
\* consults the model.
C27_EpsilonGreedyIsPure ==
    [][agent_ret'.op = "epsilon_greedy_action"
         => /\ UNCHANGED <<base_weights, target_weights, gamma, replay_buffer,
                           replay_buffer_size>>
            /\ agent_ret'.epsilon = Dbl_0_0
                 => /\ ~agent_ret'.explored
                    /\ agent_ret'.action
                         = Predict(base_weights, agent_ret'.state)
            /\ agent_ret'.epsilon = Dbl_1_0
                 => /\ agent_ret'.explored
                    /\ agent_ret'.action[1] * agent_ret'.action[1]
                         + agent_ret'.action[2] * agent_ret'.action[2] = 10 * 10]_vars

\* a greedy call (epsilon = 0) on an agent whose buffer holds experiences
\* and whose target weights differ from the online ones
C27_Witness ==
    /\ agent_ret.op = "epsilon_greedy_action"
    /\ agent_ret.epsilon = Dbl_0_0 /\ ~agent_ret.explored
    /\ replay_buffer # <<>>
    /\ base_weights # target_weights

(***************************************************************************)
(* Properties of train_reinforcement                                       *)
(***************************************************************************)
\* the statements of the while loop, where epsilon is this episode's
EpsilonComputed == train_frame.pc \in {"while", "step", "add", "train", "update"}

\* C6 as stated: update_target_model is called at most once in an episode
\* whose index is a multiple of 10 and never in another episode.
C6_TargetUpdatePerEpisode ==
    train_frame.pc # "idle" =>
        target_updates <= (IF train_frame.episode % 10 = 0 THEN 1 ELSE 0)

\* what C9 says of the epsilon of an episode, but for the value it takes from
\* episode index epsilon_decay_steps on
EpsilonSchedule ==
    /\ EpsilonComputed'
          => /\ train_frame'.episode = 0
                   => train_frame'.epsilon = train_frame'.initial_epsilon
             /\ ~DblLess(train_frame'.epsilon, train_frame'.final_epsilon)
    /\ (train_frame.pc = "for" /\ train_frame'.pc = "while"
           /\ train_frame.episode > 0)
          => ~DblLess(train_frame.epsilon, train_frame'.epsilon)
    /\ (EpsilonComputed /\ EpsilonComputed')
          => train_frame'.epsilon = train_frame.epsilon

\* C9 as stated: epsilon is initial_epsilon in episode 0, non-increasing in
\* the episode index, never below final_epsilon, equal to final_epsilon in
\* every episode of index >= epsilon_decay_steps, and constant within an
\* episode.
C9_EpsilonFinalFromDecaySteps ==
    [][/\ EpsilonSchedule
       /\ (EpsilonComputed'
             /\ train_frame'.episode >= train_frame'.epsilon_decay_steps)
            => train_frame'.epsilon = train_frame'.final_epsilon]_vars

\* C9 as amended: epsilon is initial_epsilon in episode 0, non-increasing in
\* the episode index, never below final_epsilon, equal to final_epsilon in
\* every episode of index > epsilon_decay_steps, and constant within an
\* episode.
C9_EpsilonFinalAfterDecaySteps ==
    [][/\ EpsilonSchedule
       /\ (EpsilonComputed'
             /\ train_frame'.episode > train_frame'.epsilon_decay_steps)
            => train_frame'.epsilon = train_frame'.final_epsilon]_vars

\* an episode past the decay whose epsilon has come down to final_epsilon
C9_Witness ==
    /\ train_frame.pc = "update"
    /\ train_frame.episode > train_frame.epsilon_decay_steps
    /\ DblLess(train_frame.final_epsilon, train_frame.initial_epsilon)
    /\ train_frame.epsilon = train_frame.final_epsilon

\* the sum of the rewards in a sequence of <<reward, done>> step results
RECURSIVE SumRewards(_)
SumRewards(steps) ==
    IF steps = <<>> THEN 0 ELSE steps[1][1] + SumRewards(Tail(steps))

\* C16: train_reinforcement(n_episodes = N) returns exactly N totals, one per
\* episode in episode order; the i-th is the sum of the rewards returned by
\* the steps of episode i, from its reset up to and including the step that
\* returned done = True.
C16_OneTotalPerEpisode ==
    train_frame.pc = "return" =>
        /\ Len(train_frame.episode_rewards) = train_frame.n_episodes
        /\ Len(episode_log) = train_frame.n_episodes
        /\ \A i \in 1..train_frame.n_episodes :
              /\ episode_log[i] # <<>>
              /\ \A k \in 1..Len(episode_log[i]) :
                    episode_log[i][k][2] <=> k = Len(episode_log[i])
              /\ train_frame.episode_rewards[i] = SumRewards(episode_log[i])

\* the return from a run of several episodes of several steps each
C16_Witness ==
    /\ train_frame.pc = "return"
    /\ train_frame.n_episodes > 1
    /\ Len(train_frame.episode_rewards) = train_frame.n_episodes
    /\ \A i \in 1..train_frame.n_episodes : Len(episode_log[i]) > 1

\* the steps the environment has taken in the episode under way
StepsThisEpisode == Len(episode_log[Len(episode_log)])

\* C25: within each episode of train_reinforcement every loop iteration
\* performs, in this order, action selection, one environment step, one
\* add_experience and one train_on_batch call; exactly one transition is
\* stored per environment step, its state is the observation the action was
\* selected from and its next_state the observation returned by that step,
\* so consecutive transitions of an episode are chained and only the last
\* transition of an episode has done = true.
C25_LoopOrderAndChainedTransitions ==
    [][/\ (train_frame.pc = "while" /\ ~train_frame.done)
            => /\ agent_ret'.op = "epsilon_greedy_action"
               /\ agent_ret'.state = train_frame.state
               /\ train_frame'.pc = "step"
               /\ UNCHANGED <<simVars, replay_buffer>>
       /\ train_frame.pc = "step"
            => /\ sim_ret'.op = "step"
               /\ sim_ret'.action = agent_ret.action
               /\ episode_steps' = episode_steps + 1
               /\ train_frame'.pc = "add"
               /\ UNCHANGED <<agentVars>>
       /\ train_frame.pc = "add"
            => /\ agent_ret'.op = "add_experience"
               /\ replay_buffer'[Len(replay_buffer')]
                    = <<agent_ret.state, agent_ret.action, sim_ret.reward,
                        Observation, sim_ret.done>>
               /\ StepsThisEpisode >= 2
                    => /\ replay_buffer[Len(replay_buffer)][4] = agent_ret.state
                       /\ ~replay_buffer[Len(replay_buffer)][5]
               /\ train_frame'.pc = "train"
               /\ UNCHANGED simVars
       /\ train_frame.pc = "train"
            => /\ agent_ret'.op = "train_on_batch"
               /\ train_frame'.pc = "update"
               /\ UNCHANGED <<simVars, replay_buffer>>
       /\ (train_frame.pc = "update" /\ train_frame'.pc = "while")
            => /\ train_frame'.done = sim_ret.done
               /\ UNCHANGED <<simVars, replay_buffer>>]_vars

\* the second transition of an episode has just been stored: it is the one
\* with done = true
C25_Witness ==
    /\ train_frame.pc = "train" /\ agent_ret.op = "add_experience"
    /\ train_frame.episode >= 1
    /\ StepsThisEpisode = 2
    /\ replay_buffer[Len(replay_buffer)][5]
    /\ replay_buffer[Len(replay_buffer)][1] # replay_buffer[Len(replay_buffer)][4]

\* C26: train_reinforcement with n_episodes = N always runs to completion:
\* every episode's inner loop ends after at most max_episode_steps
\* environment steps, exactly N resets are performed, and the call returns,
\* after at most N * max_episode_steps steps.
C26_TrainingTerminates ==
    /\ <>(train_frame.pc = "return")
    /\ [](\A i \in 1..Len(episode_log) :
            Len(episode_log[i]) <= max_episode_steps)
    /\ [](Len(episode_log) <= train_frame.n_episodes)
    /\ [](train_frame.pc = "return"
            => /\ Len(episode_log) = train_frame.n_episodes
               /\ Len(train_frame.episode_rewards) = train_frame.n_episodes)

\* the call has returned after NEpisodes episodes of max_episode_steps
\* steps each
C26_Witness ==
    /\ train_frame.pc = "return" /\ train_frame.n_episodes = NEpisodes
    /\ Len(episode_log) = NEpisodes
    /\ \A i \in 1..NEpisodes : Len(episode_log[i]) = max_episode_steps

(***************************************************************************)
(* Properties of the web application                                       *)
(***************************************************************************)
\* C28: while the training loop runs on the web app's background worker, an
\* observer polling the training status concurrently never reads a torn or
\* partial episode-result sequence: the rewards it sees are either the empty
\* initial list or the complete list of n_episodes totals.
C28_StatusRewardsEmptyOrComplete ==
    observer.status # "not_started" =>
        \/ observer.rewards = <<>>
        \/ /\ train_frame.pc = "return"
           /\ observer.rewards = train_frame.episode_rewards
           /\ Len(observer.rewards) = train_frame.n_episodes

\* a poll is reading the dictionary while the training loop has totalled
\* some episodes and not yet all
C28_Witness ==
    /\ observer.pc = "rewards" /\ observer.status = "training_rl"
    /\ worker_pc[1] = "rl" /\ train_frame.pc \in {"step", "add", "train"}
    /\ Len(train_frame.episode_rewards) >= 1
    /\ Len(train_frame.episode_rewards) < train_frame.n_episodes

(***************************************************************************)
(* Properties of an episode's course                                       *)
(***************************************************************************)
\* the interest level after n further disengaged steps
RECURSIVE DecaySteps(_, _)
DecaySteps(interest, n) ==
    IF n = 0 THEN interest
    ELSE DecaySteps(DblMax(Dbl_0_0, DblSub(interest, Dbl_0_01)), n - 1)

\* a step has left the interest level at 0.3 or below
LowInterest == sim_ret.op = "step" /\ ~DblLess(Dbl_0_3, cat_interest_level)

\* C31: once the interest level is <= 0.3 after a step, every later step
\* before a reset finds the cat not engaged and lowers the interest level by
\* 0.01 (down to 0), so it never increases again; eleven such steps bring
\* any such level below 0.2, where session_abandoned is true, and a step
\* that follows an abandoned one is abandoned too.
C31_LostInterestIsIrreversible ==
    /\ [][(LowInterest /\ sim_ret'.op = "step") =>
            /\ ~engagement' /\ ~sim_ret'.info.engagement
            /\ cat_interest_level' =
                   DblMax(Dbl_0_0, DblSub(cat_interest_level, Dbl_0_01))
            /\ ~DblLess(cat_interest_level, cat_interest_level')
            /\ sim_ret'.info.session_abandoned
                   <=> DblLess(cat_interest_level', Dbl_0_2)
            /\ sim_ret.info.session_abandoned
                   => sim_ret'.info.session_abandoned]_vars
    /\ [](LowInterest =>
            DblLess(DecaySteps(cat_interest_level, 11), Dbl_0_2))

\* a step that brings the laser within the engagement threshold of a cat
\* whose interest was at or below 0.3: the cat does not engage and the
\* session is abandoned
C31_Witness ==
    /\ phase # "Idle" /\ sim_ret.op = "step"
    /\ engagement_threshold > 0
    /\ sim_ret.info.distance2_to_cat
          < engagement_threshold * engagement_threshold
    /\ ~DblLess(Dbl_0_3, cat_interest_level)
    /\ ~engagement
    /\ sim_ret.info.session_abandoned

\* a step of an episode begun by reset() whose step cap is at least n
EpisodeStep(n) ==
    phase # "Idle" /\ sim_ret.op = "step" /\ max_episode_steps >= n

\* C32 as stated: with max_episode_steps >= 81 no episode ends before its
\* 81st step: step returns done = False on each of steps 1..80 whatever the
\* actions and the cat's behaviour, and an episode in which the cat is never
\* engaged ends as abandoned at exactly step 81.
C32_NoEpisodeEndsBeforeStep81 ==
    EpisodeStep(81) =>
        /\ episode_steps <= 80 => ~sim_ret.done
        /\ time_since_engagement = episode_steps =>
              /\ sim_ret.done <=> episode_steps >= 81
              /\ sim_ret.done => sim_ret.info.session_abandoned

\* C32 as amended: with max_episode_steps >= 80 no episode ends before its
\* 80th step: step returns done = False on each of steps 1..79 whatever the
\* actions and the cat's behaviour, and an episode in which the cat is never
\* engaged ends as abandoned at exactly step 80, where the interest level
\* 1.0 less 80 times 0.01 is below 0.2 in double arithmetic.
C32_NoEpisodeEndsBeforeStep80 ==
    EpisodeStep(80) =>
        /\ episode_steps <= 79 => ~sim_ret.done
        /\ time_since_engagement = episode_steps =>
              /\ sim_ret.done <=> episode_steps >= 80
              /\ sim_ret.done => sim_ret.info.session_abandoned

\* the 80th step of an episode without engagement returns done = True for
\* an interest level below 0.2, far from the step cap and from a complete
\* session
C32_Witness ==
    /\ EpisodeStep(81) /\ episode_steps = 80
    /\ time_since_engagement = 80 /\ play_duration = 80
    /\ DblLess(cat_interest_level, Dbl_0_2)
    /\ sim_ret.done
    /\ sim_ret.info.session_abandoned /\ ~sim_ret.info.session_complete

(***************************************************************************)
(* Properties of the web application's busy flags                          *)
(***************************************************************************)
\* the requests whose training_worker thread has been started and has not
\* finished
RunningWorkers == {r \in Requests : worker_pc[r] \notin {"idle", "done"}}

\* C33: at most one training worker thread is running at any time, however
\* concurrent POST /train requests interleave: a request that arrives while
\* training is in progress is rejected and starts no second worker.
C33_AtMostOneTrainingWorker ==
    /\ Cardinality(RunningWorkers) <= 1
    /\ \A r \in Requests :
          train_request[r].pc = "rejected" => worker_pc[r] = "idle"

\* C34: the busy flags are always released: once a training worker
\* (respectively a simulation worker) has been started, it finishes with
\* is_training (respectively is_simulation_running) False, whether it
\* completes, returns early after a model-load failure or raises at any
\* point; a finished worker never leaves its flag set, so a later request
\* is accepted.
C34_BusyFlagsReleased ==
    /\ (worker_pc[1] \notin {"idle", "done"})
          ~> (worker_pc[1] = "done" /\ ~is_training)
    /\ (simulation_frame.pc \notin {"idle", "done"})
          ~> (simulation_frame.pc = "done" /\ ~is_simulation_running)
    /\ [](worker_pc[1] = "done" => ~is_training)
    /\ [](simulation_frame.pc = "done" => ~is_simulation_running)

\* both workers have finished after a failure, the training worker's before
\* current_training existed, and both flags are clear
C34_Witness ==
    /\ worker_pc[1] = "done" /\ current_training.status = "None"
    /\ simulation_frame.pc = "done" /\ current_simulation = "error"
    /\ simulation_frame.num_episodes > 0 /\ simulation_frame.episode = 0
    /\ ~is_training /\ ~is_simulation_running

(***************************************************************************)
(* Properties of the Unity integration                                     *)
(***************************************************************************)
\* how many times record n stands in data_buffer
Buffered(n) == Cardinality({i \in DOMAIN data_buffer : data_buffer[i] = n})

\* C35: under any interleaving of client-handler threads in _process_data
\* with save_recorded_data and clear_data_buffer no recorded sample is lost
\* or duplicated: every record appended is in exactly one place, still in
\* data_buffer, written by one save that returned True, or counted by one
\* clear; and a save that returns False leaves data_buffer as it was.
C35_NoSampleLostOrDuplicated ==
    /\ [](\A n \in 1..record_log.appended :
            Buffered(n) + record_log.saved[n] + record_log.cleared[n] = 1)
    /\ [][(recorder'.op = "save" /\ recorder'.result = "False"
              /\ recorder' # recorder)
            => data_buffer' = data_buffer]_vars

\* C36: _process_data on a message that lacks any of catX, catZ, laserX,
\* laserZ returns a response with status 'error' and leaves data_buffer,
\* last_cat_pos, last_laser_pos and last_prediction_time as they were; it
\* does not raise to the client handler, whose loop goes on to receive the
\* next message.
C36_MissingFieldIsTurnedAway ==
    [][\A h \in Handlers :
         (/\ client_handler[h].pc = "recv"
          /\ client_handler'[h] # client_handler[h]
          /\ Validation(client_handler'[h].data) # "ok")
         => /\ client_handler'[h].response = "error"
            /\ client_handler'[h].pc = "recv"
            /\ UNCHANGED <<data_buffer, last_cat_pos, last_laser_pos,
                           last_prediction_time>>]_vars

\* a message without laserZ that reports the cat at (1, 2) has been turned
\* away while a record is buffered and the position stored last is (3, 4)
C36_Witness ==
    \E h \in Handlers :
        /\ client_handler[h].pc = "recv"
        /\ client_handler[h].data.kind = "object"
        /\ client_handler[h].data.fields = required_fields \ {"laserZ"}
        /\ client_handler[h].response = "error"
        /\ Len(data_buffer) >= 1
        /\ last_cat_pos = <<3, 4>>

(***************************************************************************)
(* Properties of the configuration module                                  *)
(***************************************************************************)
\* C37: load_config always starts from the default configuration: after a
\* load_config(path) whose user file overrides a nested value, or after an
\* update_config on a section, a load_config() with no path makes
\* get_config() return the original default values again.
C37_LoadConfigRestoresDefaults ==
    (/\ ~global_config.none
     /\ config_ret.op \in {"load_config", "get_config"}
     /\ config_ret.path = "None"
     /\ global_config.top = DefaultTop)
      => Resolve(global_config.top, config_heap)
            = Resolve(DefaultTop, DefaultHeap)

(***************************************************************************)
(* Properties of the servo driver                                          *)
(***************************************************************************)
\* C38: for every integer speed_percent, set_speed clamps it to
\* [-100, 100] and produces a pulse width in [1000, 2000] microseconds and a
\* PWM duty in [51, 102] of 1023; a speed beyond the range gives the duty
\* of -100 (51) or of 100 (102), and stop() always produces the neutral
\* pulse of 1500 microseconds, duty 76.
C38_PulseAndDutyInRange ==
    /\ servo_ret.op \in {"set_speed", "stop"} =>
          /\ servo_ret.pulse \in 1000..2000
          /\ pwm_duty \in 51..102
          /\ servo_ret.speed_percent >= 100 =>
                servo_ret.pulse = 2000 /\ pwm_duty = 102
          /\ servo_ret.speed_percent <= -100 =>
                servo_ret.pulse = 1000 /\ pwm_duty = 51
          /\ servo_ret.speed_percent \in (-100)..100 =>
                servo_ret.pulse = 1500 + 5 * servo_ret.speed_percent
    /\ servo_ret.op = "stop" => servo_ret.pulse = 1500 /\ pwm_duty = 76

\* set_speed was called with a speed above 100 and set the duty of 100
C38_Witness ==
    /\ servo_ret.op = "set_speed"
    /\ servo_ret.speed_percent > 100
    /\ servo_ret.pulse = 2000 /\ pwm_duty = 102

====
